---- MODULE Spec2Model ----
(***************************************************************************)
(* The garbage-collecting allocator of vm/alloc/Heap.c as a state machine: *)
(* mutator threads in dvmMalloc/tryMalloc/throwOOME, the collector driver  *)
(* dvmCollectGarbageInternal (entered from tryMalloc, from the concurrent  *)
(* GC daemon and from explicit requests), dvmWaitForConcurrentGcToComplete *)
(* and the heap worker calling dvmGetNextHeapWorkerObject.                 *)
(***************************************************************************)
EXTENDS Integers, Sequences, FiniteSets, TLC

(* ---- bounds ---- *)
MaxObjs == 1
MaxQueue == 1
MaxNest == 1
heapGrowthLimit == 2

(* ---- program constants ---- *)
NULL == 0
kInvalidPriority == 10000
ANDROID_PRIORITY_NORMAL == 0
ANDROID_PRIORITY_BACKGROUND == 10

Mutators == {"m1", "m2"}
Daemon == "gcd"
Worker == "hw"
Threads == Mutators \cup {Daemon, Worker}
NoThread == "none"

Objs == 1..MaxObjs
Sizes == {heapGrowthLimit - 1, heapGrowthLimit}
(* what the caller of dvmMalloc does with the object: forgets it, stores it
   where the roots reach it, or makes it the referent of a SoftReference *)
Uses == {"drop", "strong", "soft"}
GcReasons == {"GC_FOR_MALLOC", "GC_CONCURRENT", "GC_EXPLICIT"}
(* nice values a thread may run at: above normal, normal, below normal and
   background *)
Priorities == {ANDROID_PRIORITY_NORMAL - 1, ANDROID_PRIORITY_NORMAL,
               ANDROID_PRIORITY_NORMAL + 1, ANDROID_PRIORITY_BACKGROUND}
ThreadKinds == {"listed", "attaching", "nothread"}

VARIABLES
    th,                       \* per-thread position and locals
    gcHeapLock,               \* gDvm.gcHeapLock owner
    heapWorkerLock,           \* gDvm.heapWorkerLock owner
    heapWorkerListLock,       \* gDvm.heapWorkerListLock owner
    gcRunning,                \* gcHeap->gcRunning
    suspendBy,                \* thread with a suspend-all outstanding
    condWaiters,              \* threads asleep on gDvm.gcHeapCond
    liveBits,                 \* heap source live bitmap
    markBits,                 \* heap source mark bitmap
    cardDirty,                \* card table has a dirty card
    refLists,                 \* soft/weak/phantomReferences discovered lists
    finalizableRefs,
    pendingFinalizationRefs,
    referenceOperations,
    tracked,                  \* per-thread tracked-allocation set
    aborted,                  \* dvmAbort() was called
    boot,                     \* dvmHeapStartup: position, result, what it built
    refs                      \* what the mutators' roots hold, and where

workerLocks == <<heapWorkerLock, heapWorkerListLock>>
heapState == <<liveBits, markBits, cardDirty, refLists>>
queues == <<finalizableRefs, pendingFinalizationRefs, referenceOperations>>
shared == <<gcHeapLock, workerLocks, gcRunning, suspendBy, condWaiters,
            heapState, queues, tracked, aborted, boot, refs>>
vars == <<th, shared>>

(* ---- helpers ---- *)
Range(s) == {s[i] : i \in 1..Len(s)}

(* no earlier cycle of the same caller to compare with *)
NoCycle == [done |-> FALSE, soft |-> FALSE, kept |-> {}]

IdleLocals ==
    [pc |-> "idle", status |-> "RUNNING", oldStatus |-> "RUNNING",
     kind |-> "listed", size |-> 0, finalizable |-> FALSE, dontTrack |-> FALSE,
     ptr |-> NULL, frames |-> <<>>, throwingOOME |-> FALSE, exception |-> "none",
     clearSoftRefs |-> FALSE, reason |-> "GC_FOR_MALLOC", gcRet |-> "idle",
     lockRet |-> "idle", waitRet |-> "idle", recursive |-> FALSE,
     susLog |-> <<>>, phases |-> <<>>, softRefsCleared |-> FALSE,
     obj |-> NULL, op |-> "none", calls |-> <<>>,
     priority |-> ANDROID_PRIORITY_NORMAL, policy |-> "SP_FOREGROUND",
     oldThreadPriority |-> kInvalidPriority, entrySched |-> <<>>,
     use |-> "drop", garbage |-> {},
     again |-> <<>>, first |-> NoCycle, kept |-> {}, quiet |-> TRUE,
     heapLog |-> <<>>]

(* The locals of thread t back in interpreted code: the nice value and the
   scheduling policy belong to the thread, not to a call. *)
Idle(t) ==
    [IdleLocals EXCEPT !.priority = th[t].priority, !.policy = th[t].policy]

(* dvmHeapStartup has returned true *)
Started ==
    [pc |-> "done", ret |-> "true", growthLimit |-> heapGrowthLimit,
     heapSource |-> TRUE, gcHeap |-> TRUE, cardTable |-> TRUE]

InitHeap ==
    /\ th = [t \in Threads |->
               IF t \in Mutators THEN IdleLocals
               ELSE IF t = Daemon
                    THEN [IdleLocals EXCEPT !.pc = "d_idle", !.status = "VMWAIT"]
                    ELSE [IdleLocals EXCEPT !.pc = "hw_idle", !.status = "VMWAIT"]]
    /\ gcHeapLock = NoThread
    /\ heapWorkerLock = NoThread
    /\ heapWorkerListLock = NoThread
    /\ gcRunning = FALSE
    /\ suspendBy = NoThread
    /\ condWaiters = {}
    /\ liveBits = {}
    /\ markBits = {}
    /\ cardDirty = FALSE
    /\ refLists = "null"
    /\ finalizableRefs = <<>>
    /\ pendingFinalizationRefs = <<>>
    /\ referenceOperations = <<>>
    /\ tracked = [t \in Threads |-> {}]
    /\ aborted = FALSE
    /\ refs = [strong |-> {}, soft |-> {}, zygote |-> {}]

Init == InitHeap /\ boot = Started

(* ---- dvmHeapStartup (line 50-93) ---- *)
heapMaximumSize == heapGrowthLimit

(* the VM before dvmHeapStartup, gDvm.heapGrowthLimit as configured (0: the
   maximum size) *)
InitStartup ==
    /\ InitHeap
    /\ \E limit \in {0, heapGrowthLimit} :
          boot = [pc |-> "start", ret |-> "none", growthLimit |-> limit,
                  heapSource |-> FALSE, gcHeap |-> FALSE, cardTable |-> FALSE]

(* line 54-73: the growth limit defaults to the maximum size;
   dvmHeapSourceStartup builds the heap or returns NULL; gDvm.gcHeap is set *)
dvmHeapStartup_source ==
    /\ boot.pc = "start"
    /\ LET limit == IF boot.growthLimit = 0 THEN heapMaximumSize
                    ELSE boot.growthLimit IN
       \/ boot' = [boot EXCEPT !.growthLimit = limit, !.pc = "done",
                               !.ret = "false"]
       \/ boot' = [boot EXCEPT !.growthLimit = limit, !.pc = "cardTable",
                               !.heapSource = TRUE, !.gcHeap = TRUE]
    /\ UNCHANGED <<th, gcHeapLock, workerLocks, gcRunning, suspendBy,
                   condWaiters, heapState, queues, tracked, aborted, refs>>

(* line 75-92: the lists are set to NULL, dvmCardTableStartup builds the card
   table or fails, dvmInitializeHeapWorkerState *)
dvmHeapStartup_cardTable ==
    /\ boot.pc = "cardTable"
    /\ finalizableRefs' = <<>>
    /\ pendingFinalizationRefs' = <<>>
    /\ referenceOperations' = <<>>
    /\ heapWorkerListLock' = NoThread
    /\ \/ /\ boot' = [boot EXCEPT !.pc = "done", !.ret = "false"]
          /\ heapWorkerLock' = heapWorkerLock
       \/ /\ boot' = [boot EXCEPT !.pc = "done", !.ret = "true",
                                  !.cardTable = TRUE]
          /\ heapWorkerLock' = NoThread
    /\ UNCHANGED <<th, gcHeapLock, gcRunning, suspendBy, condWaiters,
                   heapState, tracked, aborted, refs>>

(* A thread the suspend-all protocol counts: it has a Thread object that is
   on the thread list. *)
OnThreadList(t) == th[t].kind = "listed"
HasThread(t) == th[t].kind # "nothread"

(* dvmChangeStatus(self, s): entering THREAD_RUNNING is the suspension point:
   it stalls while another thread's suspend-all is outstanding. *)
CanChangeStatus(t, s) ==
    s # "RUNNING" \/ ~OnThreadList(t) \/ suspendBy \in {NoThread, t}

NewStatus(t, s) == IF HasThread(t) THEN s ELSE th[t].status

(* dvmAbort(): the process dies, no thread takes another step. *)
dvmAbort ==
    /\ aborted' = TRUE
    /\ boot' = boot
    /\ refs' = refs
    /\ th' = [u \in Threads |-> [th[u] EXCEPT !.pc = "aborted"]]

(* ---- dvmLockHeap / dvmUnlockHeap ---- *)
(* the heap-lock history of the driver call thread t is in, with the lock
   just taken if this dvmLockHeap is the driver's (line 661, 730) *)
Relocked(t) ==
    IF th[t].lockRet \in {"gc_suspend2", "gc_resize"}
    THEN Append(th[t].heapLog, "L") ELSE th[t].heapLog

(* line 157-170 without the dvmChangeStatus(self, THREAD_VMWAIT) of line 164 *)
dvmLockHeap_try_noStatus(t) ==
    /\ th[t].pc = "lh_try"
    /\ IF gcHeapLock = NoThread
       THEN /\ gcHeapLock' = t
            /\ th' = [th EXCEPT ![t].pc = th[t].lockRet, ![t].lockRet = "idle",
                                ![t].heapLog = Relocked(t)]
       ELSE /\ gcHeapLock' = gcHeapLock
            /\ th' = [th EXCEPT ![t].pc = "lh_block",
                                ![t].oldStatus = th[t].status]
    /\ UNCHANGED <<workerLocks, gcRunning, suspendBy, condWaiters, heapState,
                   queues, tracked, aborted, boot, refs>>

dvmLockHeap_try(t) ==
    /\ th[t].pc = "lh_try"
    /\ IF gcHeapLock = NoThread
       THEN /\ gcHeapLock' = t
            /\ th' = [th EXCEPT ![t].pc = th[t].lockRet, ![t].lockRet = "idle",
                                ![t].heapLog = Relocked(t)]
       ELSE /\ gcHeapLock' = gcHeapLock
            /\ th' = [th EXCEPT ![t].pc = "lh_block",
                                ![t].oldStatus = th[t].status,
                                ![t].status = NewStatus(t, "VMWAIT")]
    /\ UNCHANGED <<workerLocks, gcRunning, suspendBy, condWaiters, heapState,
                   queues, tracked, aborted, boot, refs>>

dvmLockHeap_block(t) ==
    /\ th[t].pc = "lh_block"
    /\ gcHeapLock = NoThread
    /\ gcHeapLock' = t
    /\ th' = [th EXCEPT ![t].pc = "lh_restore", ![t].heapLog = Relocked(t)]
    /\ UNCHANGED <<workerLocks, gcRunning, suspendBy, condWaiters, heapState,
                   queues, tracked, aborted, boot, refs>>

dvmLockHeap_restore(t) ==
    /\ th[t].pc = "lh_restore"
    /\ CanChangeStatus(t, th[t].oldStatus)
    /\ th' = [th EXCEPT ![t].pc = th[t].lockRet, ![t].lockRet = "idle",
                        ![t].status = NewStatus(t, th[t].oldStatus),
                        ![t].oldStatus = "RUNNING"]
    /\ UNCHANGED shared

dvmUnlockHeap(t) == gcHeapLock' = NoThread

(* ---- heap source (HeapSource.c): allocation of a chunk ---- *)
FreeChunks == Objs \ (liveBits \cup markBits)
FirstFree == CHOOSE o \in FreeChunks : \A p \in FreeChunks : o <= p

(* The outcomes of dvmHeapSourceAlloc(size): NULL, or a chunk that was free. *)
dvmHeapSourceAlloc(size) ==
    IF size < heapGrowthLimit /\ FreeChunks # {} THEN {NULL, FirstFree} ELSE {NULL}

(* dvmHeapSourceAllocAndGrow(size) may grow the footprint up to the limit. *)
dvmHeapSourceAllocAndGrow(size) == dvmHeapSourceAlloc(size)

(* The bitmaps after handing out chunk p (NULL: nothing changes); an object
   allocated while a collection is running is created marked. *)
Allocated(p) ==
    /\ liveBits' = IF p = NULL THEN liveBits ELSE liveBits \cup {p}
    /\ markBits' = IF p # NULL /\ gcRunning THEN markBits \cup {p} ELSE markBits
    /\ UNCHANGED <<cardDirty, refLists>>

(* ---- calls ---- *)
(* The locals of thread t on entry to dvmMalloc(size, flags). *)
EnterMalloc(t, size, fin, dont) ==
    [th[t] EXCEPT !.pc = "lh_try", !.lockRet = "tm_start", !.size = size,
                  !.finalizable = fin, !.dontTrack = dont, !.ptr = NULL,
                  !.softRefsCleared = FALSE, !.calls = <<>>]

(* line 549: gcMode *)
gcMode(t) == IF th[t].reason = "GC_FOR_MALLOC" THEN "GC_PARTIAL" ELSE "GC_FULL"

(* ---- the object graph as the roots see it ---- *)
(* The root set: tracked allocations, the entries of the worker queues and
   what the mutators hold strongly. *)
RootSet ==
    UNION {tracked[u] : u \in Threads}
      \cup Range(pendingFinalizationRefs) \cup Range(referenceOperations)
      \cup refs.strong

(* the live objects that no root reaches, directly or through a
   SoftReference, that no thread is just returning from dvmMalloc, and that
   have no finalizer *)
Unreachable ==
    {o \in liveBits : /\ o \notin RootSet \cup refs.soft
                      /\ o \notin {th[u].ptr : u \in Threads}
                      /\ o \notin Range(finalizableRefs)}

(* the objects a cycle of thread t's mode leaves alone: in GC_PARTIAL, those
   outside the area allocation now happens in *)
Immune(t) == IF gcMode(t) = "GC_PARTIAL" THEN refs.zygote ELSE {}

(* The locals of thread t on entry to dvmCollectGarbageInternal. *)
EnterGc(t, clearSoftRefs, reason, ret) ==
    [th[t] EXCEPT !.pc = "gc_entry", !.clearSoftRefs = clearSoftRefs,
                  !.reason = reason, !.gcRet = ret, !.recursive = FALSE,
                  !.susLog = <<>>, !.phases = <<>>,
                  !.oldThreadPriority = kInvalidPriority,
                  !.entrySched = <<th[t].priority, th[t].policy>>,
                  !.garbage = Unreachable]

(* gcForMalloc(collectSoftReferences), line 219-233 *)
gcForMalloc(t, collectSoftReferences, ret) ==
    EnterGc(t, collectSoftReferences, "GC_FOR_MALLOC", ret)

(* ---- a mutator calls dvmMalloc (line 408-413) ---- *)
Call_dvmMalloc(t, kinds, finalizables, dontTracks, uses) ==
    /\ t \in Mutators
    /\ th[t].pc = "idle"
    /\ \E size \in Sizes, fin \in finalizables, dont \in dontTracks,
          kind \in kinds, use \in uses :
          /\ kind = "listed" => suspendBy = NoThread
          /\ th' = [th EXCEPT ![t] =
                      [EnterMalloc(t, size, fin, dont) EXCEPT
                          !.kind = kind, !.use = use,
                          !.status = IF kind = "listed" THEN "RUNNING" ELSE "VMWAIT",
                          !.exception = "none"]]
    /\ UNCHANGED shared

(* ---- tryMalloc (line 237-332) ---- *)
(* line 262-265 without the giant-size bypass of line 245-250 *)
tryMalloc_alloc_noBypass(t) ==
    /\ th[t].pc = "tm_start"
    /\ \E p \in dvmHeapSourceAlloc(th[t].size) :
          /\ Allocated(p)
          /\ th' = [th EXCEPT ![t].ptr = p, ![t].calls = Append(@, "alloc"),
                              ![t].pc = IF p # NULL THEN "m_post" ELSE "tm_running"]
    /\ UNCHANGED <<gcHeapLock, workerLocks, gcRunning, suspendBy, condWaiters,
                   queues, tracked, aborted, boot, refs>>

(* line 245-265: the giant-size bypass, else the first dvmHeapSourceAlloc *)
tryMalloc_alloc(t) ==
    /\ th[t].pc = "tm_start"
    /\ IF th[t].size >= heapGrowthLimit
       THEN /\ th' = [th EXCEPT ![t].pc = "tm_soft", ![t].ptr = NULL]
            /\ UNCHANGED heapState
       ELSE \E p \in dvmHeapSourceAlloc(th[t].size) :
              /\ Allocated(p)
              /\ th' = [th EXCEPT ![t].ptr = p, ![t].calls = Append(@, "alloc"),
                                  ![t].pc = IF p # NULL THEN "m_post" ELSE "tm_running"]
    /\ UNCHANGED <<gcHeapLock, workerLocks, gcRunning, suspendBy, condWaiters,
                   queues, tracked, aborted, boot, refs>>

(* line 271-276: if the GC is running, wait for it *)
tryMalloc_running(t) ==
    /\ th[t].pc = "tm_running"
    /\ th' = [th EXCEPT ![t].pc = IF gcRunning THEN "w_loop" ELSE "tm_gc",
                        ![t].waitRet = IF gcRunning THEN "tm_retry" ELSE @,
                        ![t].calls = IF gcRunning THEN Append(@, "wait") ELSE @]
    /\ UNCHANGED shared

(* line 277-280: retry after the wait *)
tryMalloc_retry(t) ==
    /\ th[t].pc = "tm_retry"
    /\ \E p \in dvmHeapSourceAlloc(th[t].size) :
          /\ Allocated(p)
          /\ th' = [th EXCEPT ![t].ptr = p, ![t].calls = Append(@, "alloc"),
                              ![t].pc = IF p # NULL THEN "m_post" ELSE "tm_gc"]
    /\ UNCHANGED <<gcHeapLock, workerLocks, gcRunning, suspendBy, condWaiters,
                   queues, tracked, aborted, boot, refs>>

(* line 287: gcForMalloc(false) *)
tryMalloc_gc(t) ==
    /\ th[t].pc = "tm_gc"
    /\ th' = [th EXCEPT ![t] = [gcForMalloc(t, FALSE, "tm_grow") EXCEPT
                                   !.calls = Append(@, "gc_false")]]
    /\ UNCHANGED shared

(* line 288-291: dvmHeapSourceAlloc after the foreground GC *)
tryMalloc_grow(t) ==
    /\ th[t].pc = "tm_grow"
    /\ \E p \in dvmHeapSourceAlloc(th[t].size) :
          /\ Allocated(p)
          /\ th' = [th EXCEPT ![t].ptr = p, ![t].calls = Append(@, "alloc"),
                              ![t].pc = IF p # NULL THEN "m_post" ELSE "tm_grow2"]
    /\ UNCHANGED <<gcHeapLock, workerLocks, gcRunning, suspendBy, condWaiters,
                   queues, tracked, aborted, boot, refs>>

(* line 293-308: dvmHeapSourceAllocAndGrow *)
tryMalloc_allocAndGrow(t) ==
    /\ th[t].pc = "tm_grow2"
    /\ \E p \in dvmHeapSourceAllocAndGrow(th[t].size) :
          /\ Allocated(p)
          /\ th' = [th EXCEPT ![t].ptr = p, ![t].calls = Append(@, "grow"),
                              ![t].pc = IF p # NULL THEN "m_post" ELSE "tm_soft"]
    /\ UNCHANGED <<gcHeapLock, workerLocks, gcRunning, suspendBy, condWaiters,
                   queues, tracked, aborted, boot, refs>>

(* line 317-320, collect_soft_refs: gcForMalloc(true) *)
tryMalloc_soft(t) ==
    /\ th[t].pc = "tm_soft"
    /\ th' = [th EXCEPT ![t] = [gcForMalloc(t, TRUE, "tm_last") EXCEPT
                                   !.calls = Append(@, "gc_true")]]
    /\ UNCHANGED shared

(* line 321-331: the last dvmHeapSourceAllocAndGrow; tryMalloc returns *)
tryMalloc_last(t) ==
    /\ th[t].pc = "tm_last"
    /\ \E p \in dvmHeapSourceAllocAndGrow(th[t].size) :
          /\ Allocated(p)
          /\ th' = [th EXCEPT ![t].ptr = p, ![t].calls = Append(@, "grow"),
                              ![t].pc = "m_post"]
    /\ UNCHANGED <<gcHeapLock, workerLocks, gcRunning, suspendBy, condWaiters,
                   queues, tracked, aborted, boot, refs>>

(* line 421-431 without the dvmHeapAddRefToLargeTable call *)
dvmMalloc_finalizable_noAppend(t) ==
    /\ th[t].pc = "m_post"
    /\ th' = [th EXCEPT ![t].pc = "m_unlock", ![t].calls = <<>>]
    /\ UNCHANGED shared

(* ---- dvmMalloc after tryMalloc (line 418-476) ---- *)
(* line 418-456: a finalizable object goes on finalizableRefs; a full table
   (dvmHeapAddRefToLargeTable fails) aborts the VM *)
dvmMalloc_finalizable(t) ==
    /\ th[t].pc = "m_post"
    /\ IF th[t].ptr # NULL /\ th[t].finalizable
       THEN \/ /\ finalizableRefs' = Append(finalizableRefs, th[t].ptr)
               /\ th' = [th EXCEPT ![t].pc = "m_unlock", ![t].calls = <<>>]
               /\ UNCHANGED <<aborted, boot, refs>>
            \/ /\ finalizableRefs' = finalizableRefs
               /\ dvmAbort
       ELSE /\ th' = [th EXCEPT ![t].pc = "m_unlock", ![t].calls = <<>>]
            /\ UNCHANGED <<finalizableRefs, aborted, boot, refs>>
    /\ UNCHANGED <<gcHeapLock, workerLocks, gcRunning, suspendBy, condWaiters,
                   heapState, pendingFinalizationRefs, referenceOperations, tracked>>

(* line 458 moved to the end of dvmMalloc: the heap lock is still held at
   line 460-473 *)
dvmMalloc_unlock_late(t) ==
    /\ th[t].pc = "m_unlock"
    /\ th' = [th EXCEPT ![t].pc = "m_after"]
    /\ UNCHANGED shared

(* line 458: dvmUnlockHeap() *)
dvmMalloc_unlock(t) ==
    /\ th[t].pc = "m_unlock"
    /\ dvmUnlockHeap(t)
    /\ th' = [th EXCEPT ![t].pc = "m_after"]
    /\ UNCHANGED <<workerLocks, gcRunning, suspendBy, condWaiters, heapState,
                   queues, tracked, aborted, boot, refs>>

(* line 460-473: track the object, or throw *)
dvmMalloc_after(t) ==
    /\ th[t].pc = "m_after"
    /\ IF th[t].ptr # NULL
       THEN /\ tracked' = IF th[t].dontTrack THEN tracked
                          ELSE [tracked EXCEPT ![t] = @ \cup {th[t].ptr}]
            /\ th' = [th EXCEPT ![t].pc = "m_ret"]
       ELSE /\ tracked' = tracked
            /\ th' = [th EXCEPT ![t].pc = "oo_start"]
    /\ UNCHANGED <<gcHeapLock, workerLocks, gcRunning, suspendBy, condWaiters,
                   heapState, queues, aborted, boot, refs>>

(* line 340-383 with the else branch (line 377) throwing nothing *)
throwOOME_noPrebuilt(t) ==
    /\ th[t].pc = "oo_start"
    /\ th' = IF ~HasThread(t)
             THEN [th EXCEPT ![t].pc = "m_ret"]
             ELSE IF OnThreadList(t) /\ ~th[t].throwingOOME
             THEN [th EXCEPT ![t].pc = "oo_throw", ![t].throwingOOME = TRUE]
             ELSE [th EXCEPT ![t].pc = "oo_clear"]
    /\ UNCHANGED shared

(* ---- throwOOME (line 340-383) ---- *)
(* line 344-378 up to the call of dvmThrowException / dvmSetException *)
throwOOME(t) ==
    /\ th[t].pc = "oo_start"
    /\ th' = IF ~HasThread(t)
             THEN [th EXCEPT ![t].pc = "m_ret"]
             ELSE IF OnThreadList(t) /\ ~th[t].throwingOOME
             THEN [th EXCEPT ![t].pc = "oo_throw", ![t].throwingOOME = TRUE]
             ELSE [th EXCEPT ![t].pc = "oo_clear", ![t].exception = "prebuilt"]
    /\ UNCHANGED shared

(* dvmThrowException("Ljava/lang/OutOfMemoryError;", NULL) allocates the
   exception object: a nested dvmMalloc on the same thread *)
dvmThrowException_alloc(t) ==
    /\ th[t].pc = "oo_throw"
    /\ Len(th[t].frames) < MaxNest
    /\ \E size \in Sizes, dont \in BOOLEAN :
          th' = [th EXCEPT ![t] =
                   [EnterMalloc(t, size, FALSE, dont) EXCEPT
                       !.frames = Append(@, [size |-> th[t].size,
                                             finalizable |-> th[t].finalizable,
                                             dontTrack |-> th[t].dontTrack])]]
    /\ UNCHANGED shared

(* dvmThrowException returns with an exception pending: the new one, or the
   one a failed nested allocation left *)
dvmThrowException_done(t) ==
    /\ th[t].pc = "oo_throw"
    /\ th' = [th EXCEPT ![t].pc = "oo_clear",
                        ![t].exception = IF @ = "none" THEN "fresh" ELSE @]
    /\ UNCHANGED shared

(* line 381 *)
throwOOME_clear(t) ==
    /\ th[t].pc = "oo_clear"
    /\ th' = [th EXCEPT ![t].pc = "m_ret", ![t].throwingOOME = FALSE]
    /\ UNCHANGED shared

(* the references after the caller has used object p as it meant to *)
Stored(p, use) ==
    IF use = "strong" THEN [refs EXCEPT !.strong = @ \cup {p}]
    ELSE IF use = "soft" THEN [refs EXCEPT !.soft = @ \cup {p}]
    ELSE refs

(* line 475: return ptr, to the interpreter or into dvmThrowException; the
   caller is done with the tracked reference (dvmReleaseTrackedAlloc) *)
dvmMalloc_return(t) ==
    /\ th[t].pc = "m_ret"
    /\ tracked' = [tracked EXCEPT ![t] = @ \ {th[t].ptr}]
    /\ refs' = IF th[t].frames = <<>> /\ th[t].ptr \in liveBits
               THEN Stored(th[t].ptr, th[t].use) ELSE refs
    /\ IF th[t].frames = <<>>
       THEN th' = [th EXCEPT ![t] = [Idle(t) EXCEPT
                                       !.throwingOOME = th[t].throwingOOME]]
       ELSE LET f == th[t].frames[Len(th[t].frames)] IN
            th' = [th EXCEPT ![t].pc = "oo_throw", ![t].ptr = NULL,
                             ![t].size = f.size,
                             ![t].finalizable = f.finalizable,
                             ![t].dontTrack = f.dontTrack,
                             ![t].softRefsCleared = FALSE,
                             ![t].frames = SubSeq(@, 1, Len(@) - 1)]
    /\ UNCHANGED <<gcHeapLock, workerLocks, gcRunning, suspendBy, condWaiters,
                   heapState, queues, aborted, boot>>

(* ---- dvmWaitForConcurrentGcToComplete (line 851-860) ---- *)
(* line 855-857 with a wait that does not give up the mutex *)
dvmWaitForConcurrentGcToComplete_test_noRelease(t) ==
    /\ th[t].pc = "w_loop"
    /\ IF gcRunning
       THEN /\ th' = [th EXCEPT ![t].pc = "w_sleep",
                                ![t].oldStatus = th[t].status,
                                ![t].status = NewStatus(t, "VMWAIT")]
            /\ condWaiters' = condWaiters \cup {t}
       ELSE /\ th' = [th EXCEPT ![t].pc = th[t].waitRet, ![t].waitRet = "idle"]
            /\ UNCHANGED condWaiters
    /\ UNCHANGED <<gcHeapLock, workerLocks, gcRunning, suspendBy, heapState,
                   queues, tracked, aborted, boot, refs>>

(* line 855-857: the loop test; if the GC is running, go to sleep on
   gcHeapCond, which releases the heap lock *)
dvmWaitForConcurrentGcToComplete_test(t) ==
    /\ th[t].pc = "w_loop"
    /\ IF gcRunning
       THEN /\ th' = [th EXCEPT ![t].pc = "w_sleep",
                                ![t].oldStatus = th[t].status,
                                ![t].status = NewStatus(t, "VMWAIT")]
            /\ condWaiters' = condWaiters \cup {t}
            /\ dvmUnlockHeap(t)
       ELSE /\ th' = [th EXCEPT ![t].pc = th[t].waitRet, ![t].waitRet = "idle"]
            /\ UNCHANGED <<condWaiters, gcHeapLock>>
    /\ UNCHANGED <<workerLocks, gcRunning, suspendBy, heapState, queues,
                   tracked, aborted, boot, refs>>

(* pthread_cond_wait may wake without a broadcast *)
SpuriousWakeup(t) ==
    /\ t \in condWaiters
    /\ condWaiters' = condWaiters \ {t}
    /\ UNCHANGED <<th, gcHeapLock, workerLocks, gcRunning, suspendBy, heapState,
                   queues, tracked, aborted, boot, refs>>

(* line 857: dvmWaitCond returns once woken and the heap lock is re-acquired *)
dvmWaitForConcurrentGcToComplete_woken(t) ==
    /\ th[t].pc = "w_sleep"
    /\ t \notin condWaiters
    /\ gcHeapLock = NoThread
    /\ gcHeapLock' = t
    /\ th' = [th EXCEPT ![t].pc = "w_restore"]
    /\ UNCHANGED <<workerLocks, gcRunning, suspendBy, condWaiters, heapState,
                   queues, tracked, aborted, boot, refs>>

(* line 855 with "if" for "while": return after the first wakeup *)
dvmWaitForConcurrentGcToComplete_once(t) ==
    /\ th[t].pc = "w_restore"
    /\ CanChangeStatus(t, th[t].oldStatus)
    /\ th' = [th EXCEPT ![t].pc = th[t].waitRet, ![t].waitRet = "idle",
                        ![t].status = NewStatus(t, th[t].oldStatus),
                        ![t].oldStatus = "RUNNING"]
    /\ UNCHANGED shared

(* line 858-859: restore the status and test again *)
dvmWaitForConcurrentGcToComplete_again(t) ==
    /\ th[t].pc = "w_restore"
    /\ CanChangeStatus(t, th[t].oldStatus)
    /\ th' = [th EXCEPT ![t].pc = "w_loop",
                        ![t].status = NewStatus(t, th[t].oldStatus),
                        ![t].oldStatus = "RUNNING"]
    /\ UNCHANGED shared

(* ---- suspend-all / resume-all (Thread.c) ---- *)
(* A thread the suspender need not wait for: not on the thread list, not
   THREAD_RUNNING, or in interpreted code, where it suspends itself. *)
AtSafepoint(u) == th[u].pc \in {"idle", "hw_call"}
Safe(u) == ~OnThreadList(u) \/ th[u].status # "RUNNING" \/ AtSafepoint(u)

dvmSuspendAllThreads_request(t, next) ==
    /\ suspendBy' = t
    /\ th' = [th EXCEPT ![t].pc = next, ![t].susLog = Append(@, "S")]

dvmSuspendAllThreads_wait(t, next) ==
    /\ \A u \in Threads \ {t} : Safe(u)
    /\ th' = [th EXCEPT ![t].pc = next]

dvmResumeAllThreads(t, next) ==
    /\ suspendBy' = NoThread
    /\ th' = [th EXCEPT ![t].pc = next, ![t].susLog = Append(@, "R")]

(* ---- dvmCollectGarbageInternal (line 529-829) ---- *)
Concurrent(t) == th[t].reason = "GC_CONCURRENT"

(* line 544-547 with the recursive path clearing gcRunning on its way out *)
gc_entry_clearsRunning(t) ==
    /\ th[t].pc = "gc_entry"
    /\ IF gcRunning
       THEN /\ th' = [th EXCEPT ![t].pc = "gc_ret", ![t].recursive = TRUE]
            /\ gcRunning' = FALSE
       ELSE /\ th' = [th EXCEPT ![t].pc = "gc_wlock"]
            /\ gcRunning' = TRUE
    /\ UNCHANGED <<gcHeapLock, workerLocks, suspendBy, condWaiters, heapState,
                   queues, tracked, aborted, boot, refs>>

(* gc_entry without the reentrancy check of line 544-547 *)
gc_entry_noCheck(t) ==
    /\ th[t].pc = "gc_entry"
    /\ th' = [th EXCEPT ![t].pc = "gc_wlock"]
    /\ gcRunning' = TRUE
    /\ UNCHANGED <<gcHeapLock, workerLocks, suspendBy, condWaiters, heapState,
                   queues, tracked, aborted, boot, refs>>

(* line 544-550: the reentrancy check; gcRunning = true *)
gc_entry(t) ==
    /\ th[t].pc = "gc_entry"
    /\ IF gcRunning
       THEN /\ th' = [th EXCEPT ![t].pc = "gc_ret", ![t].recursive = TRUE]
            /\ gcRunning' = gcRunning
       ELSE /\ th' = [th EXCEPT ![t].pc = "gc_wlock"]
            /\ gcRunning' = TRUE
    /\ UNCHANGED <<gcHeapLock, workerLocks, suspendBy, condWaiters, heapState,
                   queues, tracked, aborted, boot, refs>>

(* line 557: dvmLockMutex(&gDvm.heapWorkerLock) *)
gc_lockWorker(t) ==
    /\ th[t].pc = "gc_wlock"
    /\ heapWorkerLock = NoThread
    /\ heapWorkerLock' = t
    /\ th' = [th EXCEPT ![t].pc = "gc_suspend1"]
    /\ UNCHANGED <<gcHeapLock, heapWorkerListLock, gcRunning, suspendBy,
                   condWaiters, heapState, queues, tracked, aborted, boot, refs>>

(* line 560: dvmSuspendAllThreads(SUSPEND_FOR_GC), the request *)
gc_suspendRoots(t) ==
    /\ th[t].pc = "gc_suspend1"
    /\ dvmSuspendAllThreads_request(t, "gc_suspwait1")
    /\ UNCHANGED <<gcHeapLock, workerLocks, gcRunning, condWaiters, heapState,
                   queues, tracked, aborted, boot, refs>>

(* line 567-596: the locals of thread t after the priority boost.  Nothing
   changes for a concurrent cycle, when getpriority fails, or at a nice value
   not above normal; otherwise a background thread is moved to SP_FOREGROUND,
   and setpriority either fails (logged) or succeeds, saving the old value. *)
RaisePriority(t) ==
    IF Concurrent(t) \/ th[t].priority <= ANDROID_PRIORITY_NORMAL
    THEN {th[t]}
    ELSE LET fg == IF th[t].priority >= ANDROID_PRIORITY_BACKGROUND
                   THEN [th[t] EXCEPT !.policy = "SP_FOREGROUND"]
                   ELSE th[t] IN
         {th[t], fg,
          [fg EXCEPT !.priority = ANDROID_PRIORITY_NORMAL,
                     !.oldThreadPriority = th[t].priority]}

(* line 560-596: dvmSuspendAllThreads returns when every thread has stopped;
   the priority boost *)
gc_suspendedRoots(t) ==
    /\ th[t].pc = "gc_suspwait1"
    /\ \A u \in Threads \ {t} : Safe(u)
    /\ \E l \in RaisePriority(t) :
          th' = [th EXCEPT ![t] = [l EXCEPT !.pc = "gc_llock"]]
    /\ UNCHANGED shared

(* line 602-610: dvmLockMutex(&gDvm.heapWorkerListLock) *)
gc_lockWorkerList(t) ==
    /\ th[t].pc = "gc_llock"
    /\ heapWorkerListLock = NoThread
    /\ heapWorkerListLock' = t
    /\ th' = [th EXCEPT ![t].pc = "gc_mark"]
    /\ UNCHANGED <<gcHeapLock, heapWorkerLock, gcRunning, suspendBy,
                   condWaiters, heapState, queues, tracked, aborted, boot, refs>>

(* every object the roots held when the caller's previous cycle swept is
   still held by them *)
StillRooted(t) ==
    ~th[t].first.done \/ (th[t].first.kept \cap liveBits) \subseteq RootSet

(* line 621-636 with dvmHeapBeginMarkStep given GC_PARTIAL whatever the
   reason *)
gc_markRoots_alwaysPartial(t) ==
    /\ th[t].pc = "gc_mark"
    /\ \/ /\ dvmAbort
          /\ UNCHANGED <<markBits, refLists>>
       \/ /\ UNCHANGED <<aborted, boot, refs>>
          /\ markBits' = (RootSet \cup refs.zygote) \cap liveBits
          /\ refLists' = "null"
          /\ th' = [th EXCEPT ![t].pc = IF Concurrent(t) THEN "gc_c1_clear"
                                        ELSE "gc_scan",
                              ![t].phases = Append(@, "markRoots"),
                              ![t].quiet = StillRooted(t)]
    /\ UNCHANGED <<gcHeapLock, workerLocks, gcRunning, suspendBy, condWaiters,
                   liveBits, cardDirty, queues, tracked>>

(* line 621-636: dvmHeapBeginMarkStep (failure aborts), dvmHeapMarkRootSet,
   the discovered lists reset *)
gc_markRoots(t) ==
    /\ th[t].pc = "gc_mark"
    /\ \/ /\ dvmAbort
          /\ UNCHANGED <<markBits, refLists>>
       \/ /\ UNCHANGED <<aborted, boot, refs>>
          /\ markBits' = (RootSet \cup Immune(t)) \cap liveBits
          /\ refLists' = "null"
          /\ th' = [th EXCEPT ![t].pc = IF Concurrent(t) THEN "gc_c1_clear"
                                        ELSE "gc_scan",
                              ![t].phases = Append(@, "markRoots"),
                              ![t].quiet = StillRooted(t)]
    /\ UNCHANGED <<gcHeapLock, workerLocks, gcRunning, suspendBy, condWaiters,
                   liveBits, cardDirty, queues, tracked>>

(* line 644: dvmClearCardTable() *)
gc_clearCardTable(t) ==
    /\ th[t].pc = "gc_c1_clear"
    /\ cardDirty' = FALSE
    /\ th' = [th EXCEPT ![t].pc = "gc_c1_unlock"]
    /\ UNCHANGED <<gcHeapLock, workerLocks, gcRunning, suspendBy, condWaiters,
                   liveBits, markBits, refLists, queues, tracked, aborted, boot,
                   refs>>

(* line 645 without its dvmUnlockHeap() *)
gc_concUnlock1_keepsHeapLock(t) ==
    /\ th[t].pc = "gc_c1_unlock"
    /\ gcHeapLock' = gcHeapLock
    /\ th' = [th EXCEPT ![t].pc = "gc_c1_resume"]
    /\ UNCHANGED <<workerLocks, gcRunning, suspendBy, condWaiters, heapState,
                   queues, tracked, aborted, boot, refs>>

(* line 645: dvmUnlockHeap() *)
gc_concUnlock1(t) ==
    /\ th[t].pc = "gc_c1_unlock"
    /\ dvmUnlockHeap(t)
    /\ th' = [th EXCEPT ![t].pc = "gc_c1_resume",
                        ![t].heapLog = Append(@, "U")]
    /\ UNCHANGED <<workerLocks, gcRunning, suspendBy, condWaiters, heapState,
                   queues, tracked, aborted, boot, refs>>

(* line 646: dvmResumeAllThreads(SUSPEND_FOR_GC) *)
gc_concResume1(t) ==
    /\ th[t].pc = "gc_c1_resume"
    /\ dvmResumeAllThreads(t, "gc_scan")
    /\ UNCHANGED <<gcHeapLock, workerLocks, gcRunning, condWaiters, heapState,
                   queues, tracked, aborted, boot, refs>>

(* line 648-651: "If we're not collecting soft references, soft-reachable
   objects will also be marked." *)
SoftlyKept(t) == IF th[t].clearSoftRefs THEN {} ELSE refs.soft

(* line 654-664 without the dvmLockHeap and dvmSuspendAllThreads of the
   concurrent case *)
gc_scan_noRelock(t) ==
    /\ th[t].pc = "gc_scan"
    /\ markBits' = markBits \cup (SoftlyKept(t) \cap liveBits)
    /\ refLists' = "built"
    /\ th' = [th EXCEPT ![t].pc = IF Concurrent(t) THEN "gc_rescan" ELSE "gc_refs",
                        ![t].phases = Append(@, "trace")]
    /\ UNCHANGED <<gcHeapLock, workerLocks, gcRunning, suspendBy, condWaiters,
                   liveBits, cardDirty, queues, tracked, aborted, boot, refs>>

(* line 654-661: dvmHeapScanMarkedObjects marks what the marked objects
   reach and builds the discovered lists; a concurrent cycle then
   dvmLockHeap()s *)
gc_scan(t) ==
    /\ th[t].pc = "gc_scan"
    /\ markBits' = markBits \cup (SoftlyKept(t) \cap liveBits)
    /\ refLists' = "built"
    /\ th' = [th EXCEPT ![t].pc = IF Concurrent(t) THEN "lh_try" ELSE "gc_refs",
                        ![t].lockRet = IF Concurrent(t) THEN "gc_suspend2" ELSE @,
                        ![t].phases = Append(@, "trace")]
    /\ UNCHANGED <<gcHeapLock, workerLocks, gcRunning, suspendBy, condWaiters,
                   liveBits, cardDirty, queues, tracked, aborted, boot, refs>>

(* line 663: the second dvmSuspendAllThreads, the request *)
gc_suspendDirty(t) ==
    /\ th[t].pc = "gc_suspend2"
    /\ dvmSuspendAllThreads_request(t, "gc_suspwait2")
    /\ UNCHANGED <<gcHeapLock, workerLocks, gcRunning, condWaiters, heapState,
                   queues, tracked, aborted, boot, refs>>

gc_suspendedDirty(t) ==
    /\ th[t].pc = "gc_suspwait2"
    /\ dvmSuspendAllThreads_wait(t, "gc_rescan")
    /\ UNCHANGED shared

(* line 669-681 with the card table cleared before the re-scan reads it *)
gc_rescan_clearsCards(t) ==
    /\ th[t].pc = "gc_rescan"
    /\ markBits' = markBits \cup ((RootSet \cup SoftlyKept(t)) \cap liveBits)
    /\ cardDirty' = FALSE
    /\ th' = [th EXCEPT ![t].pc = "gc_refs",
                        ![t].phases = @ \o <<"remarkRoots", "rescan">>]
    /\ UNCHANGED <<gcHeapLock, workerLocks, gcRunning, suspendBy, condWaiters,
                   liveBits, refLists, queues, tracked, aborted, boot, refs>>

(* line 669-681: dvmHeapReMarkRootSet, dvmHeapReScanMarkedObjects *)
gc_rescan(t) ==
    /\ th[t].pc = "gc_rescan"
    /\ markBits' = markBits \cup ((RootSet \cup SoftlyKept(t)) \cap liveBits)
    /\ th' = [th EXCEPT ![t].pc = "gc_refs",
                        ![t].phases = @ \o <<"remarkRoots", "rescan">>]
    /\ UNCHANGED <<gcHeapLock, workerLocks, gcRunning, suspendBy, condWaiters,
                   liveBits, cardDirty, refLists, queues, tracked, aborted, boot, refs>>

(* dvmHeapProcessReferences (MarkSweep.c): unmarked finalizable objects move
   to pendingFinalizationRefs and are marked; a cleared reference object may
   be scheduled on referenceOperations *)
Unmarked(o) == o \notin markBits
IsMarked(o) == o \in markBits

(* dvmHeapProcessReferences keeping the unmarked finalizable objects for
   this cycle without scheduling their finalization *)
dvmHeapProcessReferences_losesPending ==
    LET newPending == SelectSeq(finalizableRefs, Unmarked) IN
    /\ finalizableRefs' = SelectSeq(finalizableRefs, IsMarked)
    /\ pendingFinalizationRefs' = pendingFinalizationRefs
    /\ markBits' = markBits \cup Range(newPending)
    /\ referenceOperations' = referenceOperations
    /\ refLists' = "null"

dvmHeapProcessReferences ==
    LET newPending == SelectSeq(finalizableRefs, Unmarked) IN
    /\ finalizableRefs' = SelectSeq(finalizableRefs, IsMarked)
    /\ pendingFinalizationRefs' = pendingFinalizationRefs \o newPending
    /\ markBits' = markBits \cup Range(newPending)
    /\ \/ referenceOperations' = referenceOperations
       \/ /\ Len(referenceOperations) < MaxQueue
          /\ \E o \in markBits \cup Range(newPending) :
                referenceOperations' = Append(referenceOperations, o)
    /\ refLists' = "null"

(* line 688-690 *)
gc_processReferences(t) ==
    /\ th[t].pc = "gc_refs"
    /\ dvmHeapProcessReferences
    /\ refs' = [refs EXCEPT !.soft = @ \cap markBits]
    /\ th' = [th EXCEPT ![t].pc = "gc_swap", ![t].phases = Append(@, "refs"),
                        ![t].softRefsCleared = @ \/ th[t].clearSoftRefs]
    /\ UNCHANGED <<gcHeapLock, workerLocks, gcRunning, suspendBy, condWaiters,
                   liveBits, cardDirty, tracked, aborted, boot>>

(* line 706-713: dvmHeapSweepSystemWeaks(); dvmHeapSourceSwapBitmaps() *)
gc_swapBitmaps(t) ==
    /\ th[t].pc = "gc_swap"
    /\ liveBits' = markBits
    /\ markBits' = liveBits
    /\ th' = [th EXCEPT ![t].pc = IF Concurrent(t) THEN "gc_c2_unlock"
                                  ELSE "gc_sweep",
                        ![t].phases = @ \o <<"sweepSystemWeaks", "swapBitmaps">>]
    /\ UNCHANGED <<gcHeapLock, workerLocks, gcRunning, suspendBy, condWaiters,
                   cardDirty, refLists, queues, tracked, aborted, boot, refs>>

(* line 720-722 with the worker locks released together with the heap lock *)
gc_concUnlock2_unlocksWorker(t) ==
    /\ th[t].pc = "gc_c2_unlock"
    /\ dvmUnlockHeap(t)
    /\ heapWorkerListLock' = NoThread
    /\ heapWorkerLock' = NoThread
    /\ th' = [th EXCEPT ![t].pc = "gc_c2_resume",
                        ![t].heapLog = Append(@, "U")]
    /\ UNCHANGED <<gcRunning, suspendBy, condWaiters, heapState,
                   queues, tracked, aborted, boot, refs>>

(* line 720-722: dvmUnlockHeap() *)
gc_concUnlock2(t) ==
    /\ th[t].pc = "gc_c2_unlock"
    /\ dvmUnlockHeap(t)
    /\ th' = [th EXCEPT ![t].pc = "gc_c2_resume",
                        ![t].heapLog = Append(@, "U")]
    /\ UNCHANGED <<workerLocks, gcRunning, suspendBy, condWaiters, heapState,
                   queues, tracked, aborted, boot, refs>>

(* line 723: dvmResumeAllThreads(SUSPEND_FOR_GC) *)
gc_concResume2(t) ==
    /\ th[t].pc = "gc_c2_resume"
    /\ dvmResumeAllThreads(t, "gc_sweep")
    /\ UNCHANGED <<gcHeapLock, workerLocks, gcRunning, condWaiters, heapState,
                   queues, tracked, aborted, boot, refs>>

(* dvmHeapSweepUnmarkedObjects: what the bitmap of the old live set holds and
   the new live set does not *)
Swept == markBits \ liveBits

(* line 725-731 with the dvmLockHeap of line 730 not guarded by the reason *)
gc_sweep_alwaysRelock(t) ==
    /\ th[t].pc = "gc_sweep"
    /\ markBits' = {}
    /\ refs' = [refs EXCEPT !.zygote = @ \ Swept]
    /\ th' = [th EXCEPT ![t].pc = "lh_try", ![t].lockRet = "gc_resize",
                        ![t].kept = IF th[t].again # <<>>
                                    THEN RootSet \cap liveBits ELSE {},
                        ![t].garbage = {},
                        ![t].phases = @ \o <<"sweepUnmarked", "finishMarkStep">>]
    /\ UNCHANGED <<gcHeapLock, workerLocks, gcRunning, suspendBy, condWaiters,
                   liveBits, cardDirty, refLists, queues, tracked, aborted, boot>>

(* line 725-731: dvmHeapSweepUnmarkedObjects frees what only the old live
   bitmap holds; dvmHeapFinishMarkStep clears that bitmap; a concurrent
   cycle then dvmLockHeap()s *)
gc_sweep(t) ==
    /\ th[t].pc = "gc_sweep"
    /\ markBits' = {}
    /\ refs' = [refs EXCEPT !.zygote = @ \ Swept]
    /\ th' = [th EXCEPT ![t].pc = IF Concurrent(t) THEN "lh_try" ELSE "gc_resize",
                        ![t].kept = IF th[t].again # <<>>
                                    THEN RootSet \cap liveBits ELSE {},
                        ![t].garbage = {},
                        ![t].lockRet = IF Concurrent(t) THEN "gc_resize" ELSE @,
                        ![t].phases = @ \o <<"sweepUnmarked", "finishMarkStep">>]
    /\ UNCHANGED <<gcHeapLock, workerLocks, gcRunning, suspendBy, condWaiters,
                   liveBits, cardDirty, refLists, queues, tracked, aborted, boot>>

(* line 741-760: dvmHeapSourceGrowForUtilization ... gcRunning = false *)
gc_resize(t) ==
    /\ th[t].pc = "gc_resize"
    /\ gcRunning' = FALSE
    /\ th' = [th EXCEPT ![t].pc = "gc_wunlock", ![t].phases = Append(@, "resize")]
    /\ UNCHANGED <<gcHeapLock, workerLocks, suspendBy, condWaiters, heapState,
                   queues, tracked, aborted, boot, refs>>

(* line 763-764 without the dvmUnlockMutex(&gDvm.heapWorkerLock) *)
gc_unlockWorker_keepsWorkerLock(t) ==
    /\ th[t].pc = "gc_wunlock"
    /\ heapWorkerListLock' = NoThread
    /\ heapWorkerLock' = heapWorkerLock
    /\ th' = [th EXCEPT ![t].pc = IF Concurrent(t) THEN "gc_bcast" ELSE "gc_resume"]
    /\ UNCHANGED <<gcHeapLock, gcRunning, suspendBy, condWaiters, heapState,
                   queues, tracked, aborted, boot, refs>>

(* line 763-764: both worker locks are released *)
gc_unlockWorker(t) ==
    /\ th[t].pc = "gc_wunlock"
    /\ heapWorkerListLock' = NoThread
    /\ heapWorkerLock' = NoThread
    /\ th' = [th EXCEPT ![t].pc = IF Concurrent(t) THEN "gc_bcast" ELSE "gc_resume"]
    /\ UNCHANGED <<gcHeapLock, gcRunning, suspendBy, condWaiters, heapState,
                   queues, tracked, aborted, boot, refs>>

(* line 766-772 without the dvmBroadcastCond *)
gc_broadcast_noWakeup(t) ==
    /\ th[t].pc = "gc_bcast"
    /\ th' = [th EXCEPT ![t].pc = "gc_ret"]
    /\ UNCHANGED shared

(* line 766-789 with the final resume not guarded by the reason *)
gc_broadcast_thenResume(t) ==
    /\ th[t].pc = "gc_bcast"
    /\ condWaiters' = {}
    /\ th' = [th EXCEPT ![t].pc = "gc_resume"]
    /\ UNCHANGED <<gcHeapLock, workerLocks, gcRunning, suspendBy, heapState,
                   queues, tracked, aborted, boot, refs>>

(* line 766-772: dvmBroadcastCond(&gDvm.gcHeapCond) *)
gc_broadcast(t) ==
    /\ th[t].pc = "gc_bcast"
    /\ condWaiters' = {}
    /\ th' = [th EXCEPT ![t].pc = "gc_ret"]
    /\ UNCHANGED <<gcHeapLock, workerLocks, gcRunning, suspendBy, heapState,
                   queues, tracked, aborted, boot, refs>>

(* line 777-788: the locals of thread t after the priority restore.  With a
   saved value, setpriority either fails (logged) or puts it back, and a saved
   background value moves the thread to SP_BACKGROUND either way. *)
RestorePriority(t) ==
    IF th[t].oldThreadPriority = kInvalidPriority
    THEN {th[t]}
    ELSE LET policy == IF th[t].oldThreadPriority >= ANDROID_PRIORITY_BACKGROUND
                       THEN "SP_BACKGROUND" ELSE th[t].policy IN
         {[th[t] EXCEPT !.policy = policy],
          [th[t] EXCEPT !.policy = policy,
                        !.priority = th[t].oldThreadPriority]}

(* line 774-789: the final dvmResumeAllThreads of a non-concurrent cycle and
   the priority restore *)
gc_resume(t) ==
    /\ th[t].pc = "gc_resume"
    /\ suspendBy' = NoThread
    /\ \E l \in RestorePriority(t) :
          th' = [th EXCEPT ![t] = [l EXCEPT !.pc = "gc_ret",
                                            !.susLog = Append(@, "R")]]
    /\ UNCHANGED <<gcHeapLock, workerLocks, gcRunning, condWaiters, heapState,
                   queues, tracked, aborted, boot, refs>>

(* line 791-829: the report; the driver returns to its caller *)
gc_return(t) ==
    /\ th[t].pc = "gc_ret"
    /\ th' = [th EXCEPT ![t].pc = th[t].gcRet, ![t].gcRet = "idle",
                        ![t].reason = IdleLocals.reason,
                        ![t].clearSoftRefs = FALSE, ![t].recursive = FALSE,
                        ![t].susLog = <<>>, ![t].phases = <<>>,
                        ![t].oldThreadPriority = kInvalidPriority,
                        ![t].entrySched = <<>>, ![t].garbage = {},
                        ![t].kept = {},
                        ![t].quiet = TRUE,
                        ![t].heapLog = <<>>,
                        ![t].first = IF th[t].again # <<>>
                                     THEN [done |-> TRUE,
                                           soft |-> th[t].clearSoftRefs,
                                           kept |-> th[t].kept]
                                     ELSE NoCycle]
    /\ UNCHANGED shared

(* ---- the concurrent GC trigger (gcDaemonThread, HeapSource.c) ---- *)
Daemon_lock(t) ==
    /\ t = Daemon
    /\ th[t].pc = "d_idle"
    /\ th' = [th EXCEPT ![t].pc = "lh_try", ![t].lockRet = "d_gc"]
    /\ UNCHANGED shared

Daemon_collect(t) ==
    /\ th[t].pc = "d_gc"
    /\ CanChangeStatus(t, "RUNNING")
    /\ th' = [th EXCEPT ![t] = [EnterGc(t, FALSE, "GC_CONCURRENT", "d_unlock")
                                  EXCEPT !.status = "RUNNING"]]
    /\ UNCHANGED shared

Daemon_unlock(t) ==
    /\ th[t].pc = "d_unlock"
    /\ dvmUnlockHeap(t)
    /\ th' = [th EXCEPT ![t].pc = "d_idle", ![t].status = "VMWAIT"]
    /\ UNCHANGED <<workerLocks, gcRunning, suspendBy, condWaiters, heapState,
                   queues, tracked, aborted, boot, refs>>

(* ---- an explicit request (dvmCollectGarbage, Alloc.c) ---- *)
Call_dvmCollectGarbage(t) ==
    /\ t \in Mutators
    /\ th[t].pc = "idle"
    /\ suspendBy = NoThread
    /\ \E collectSoftReferences \in BOOLEAN :
          th' = [th EXCEPT ![t].pc = "lh_try", ![t].lockRet = "x_wait",
                           ![t].clearSoftRefs = collectSoftReferences]
    /\ UNCHANGED shared

(* a caller with two requests in a row, dvmCollectGarbage(a);
   dvmCollectGarbage(b), and nothing between them *)
Call_dvmCollectGarbage_twice(t) ==
    /\ t \in Mutators
    /\ th[t].pc = "idle"
    /\ suspendBy = NoThread
    /\ \E a, b \in BOOLEAN :
          th' = [th EXCEPT ![t].pc = "lh_try", ![t].lockRet = "x_wait",
                           ![t].clearSoftRefs = a, ![t].again = <<b>>]
    /\ UNCHANGED shared

dvmCollectGarbage_wait(t) ==
    /\ th[t].pc = "x_wait"
    /\ th' = [th EXCEPT ![t].pc = "w_loop", ![t].waitRet = "x_gc"]
    /\ UNCHANGED shared

dvmCollectGarbage_collect(t) ==
    /\ th[t].pc = "x_gc"
    /\ th' = [th EXCEPT ![t] = EnterGc(t, th[t].clearSoftRefs, "GC_EXPLICIT", "x_unlock")]
    /\ UNCHANGED shared

dvmCollectGarbage_unlock(t) ==
    /\ th[t].pc = "x_unlock"
    /\ dvmUnlockHeap(t)
    /\ th' = [th EXCEPT ![t] =
                IF th[t].again = <<>> THEN Idle(t)
                ELSE [Idle(t) EXCEPT !.pc = "lh_try", !.lockRet = "x_wait",
                                     !.clearSoftRefs = Head(th[t].again),
                                     !.first = th[t].first]]
    /\ UNCHANGED <<workerLocks, gcRunning, suspendBy, condWaiters, heapState,
                   queues, tracked, aborted, boot, refs>>

(* ---- the worker queues (HeapTable.c) ---- *)
(* dvmHeapGetNextObjectFromLargeTable(&table): the next entry, NULL if none *)
dvmHeapGetNextObjectFromLargeTable(table) ==
    IF table = <<>> THEN NULL ELSE Head(table)
TableAfterGet(table) == IF table = <<>> THEN table ELSE Tail(table)

(* line 193-202 with the two tables tried in the other order *)
NextHeapWorkerObject_finalizeFirst ==
    LET r == dvmHeapGetNextObjectFromLargeTable(referenceOperations)
        f == dvmHeapGetNextObjectFromLargeTable(pendingFinalizationRefs)
    IN IF f # NULL
       THEN [obj |-> f, op |-> "WORKER_FINALIZE",
             refOps |-> referenceOperations,
             pending |-> TableAfterGet(pendingFinalizationRefs)]
       ELSE [obj |-> r, op |-> IF r # NULL THEN "WORKER_ENQUEUE" ELSE "none",
             refOps |-> TableAfterGet(referenceOperations),
             pending |-> pendingFinalizationRefs]

(* ---- dvmGetNextHeapWorkerObject (line 184-214) ---- *)
(* line 193-202: which object and operation are handed out, and the tables
   afterwards *)
NextHeapWorkerObject ==
    LET r == dvmHeapGetNextObjectFromLargeTable(referenceOperations)
        f == dvmHeapGetNextObjectFromLargeTable(pendingFinalizationRefs)
    IN IF r # NULL
       THEN [obj |-> r, op |-> "WORKER_ENQUEUE",
             refOps |-> TableAfterGet(referenceOperations),
             pending |-> pendingFinalizationRefs]
       ELSE [obj |-> f, op |-> IF f # NULL THEN "WORKER_FINALIZE" ELSE "none",
             refOps |-> referenceOperations,
             pending |-> TableAfterGet(pendingFinalizationRefs)]

(* line 191 *)
dvmGetNextHeapWorkerObject_lock(t) ==
    /\ th[t].pc = "gn_lock"
    /\ heapWorkerListLock = NoThread
    /\ heapWorkerListLock' = t
    /\ th' = [th EXCEPT ![t].pc = "gn_take"]
    /\ UNCHANGED <<gcHeapLock, heapWorkerLock, gcRunning, suspendBy,
                   condWaiters, heapState, queues, tracked, aborted, boot, refs>>

(* line 193-209 *)
dvmGetNextHeapWorkerObject_take(t) ==
    /\ th[t].pc = "gn_take"
    /\ LET n == NextHeapWorkerObject IN
         /\ referenceOperations' = n.refOps
         /\ pendingFinalizationRefs' = n.pending
         /\ tracked' = IF n.obj # NULL THEN [tracked EXCEPT ![t] = @ \cup {n.obj}]
                       ELSE tracked
         /\ th' = [th EXCEPT ![t].pc = "gn_unlock", ![t].obj = n.obj,
                             ![t].op = n.op]
    /\ UNCHANGED <<gcHeapLock, workerLocks, gcRunning, suspendBy, condWaiters,
                   heapState, finalizableRefs, aborted, boot, refs>>

(* line 211-213 *)
dvmGetNextHeapWorkerObject_unlock(t) ==
    /\ th[t].pc = "gn_unlock"
    /\ heapWorkerListLock' = NoThread
    /\ th' = [th EXCEPT ![t].pc = "hw_got"]
    /\ UNCHANGED <<gcHeapLock, heapWorkerLock, gcRunning, suspendBy,
                   condWaiters, heapState, queues, tracked, aborted, boot, refs>>

(* ---- the heap worker thread (HeapWorker.c) ---- *)
(* woken, the worker returns to THREAD_RUNNING before taking its lock *)
Worker_wake(t) ==
    /\ t = Worker
    /\ th[t].pc = "hw_idle"
    /\ CanChangeStatus(t, "RUNNING")
    /\ th' = [th EXCEPT ![t].pc = "hw_try", ![t].status = "RUNNING"]
    /\ UNCHANGED shared

(* lockMutex(&gDvm.heapWorkerLock): try-lock, else wait in THREAD_VMWAIT *)
Worker_tryLock(t) ==
    /\ th[t].pc = "hw_try"
    /\ IF heapWorkerLock = NoThread
       THEN /\ heapWorkerLock' = t
            /\ th' = [th EXCEPT ![t].pc = "gn_lock"]
       ELSE /\ heapWorkerLock' = heapWorkerLock
            /\ th' = [th EXCEPT ![t].pc = "hw_block", ![t].oldStatus = th[t].status,
                                ![t].status = "VMWAIT"]
    /\ UNCHANGED <<gcHeapLock, heapWorkerListLock, gcRunning, suspendBy,
                   condWaiters, heapState, queues, tracked, aborted, boot, refs>>

Worker_lockBlocked(t) ==
    /\ th[t].pc = "hw_block"
    /\ heapWorkerLock = NoThread
    /\ heapWorkerLock' = t
    /\ th' = [th EXCEPT ![t].pc = "hw_restore"]
    /\ UNCHANGED <<gcHeapLock, heapWorkerListLock, gcRunning, suspendBy,
                   condWaiters, heapState, queues, tracked, aborted, boot, refs>>

Worker_lockRestore(t) ==
    /\ th[t].pc = "hw_restore"
    /\ CanChangeStatus(t, th[t].oldStatus)
    /\ th' = [th EXCEPT ![t].pc = "gn_lock", ![t].status = th[t].oldStatus,
                        ![t].oldStatus = "RUNNING"]
    /\ UNCHANGED shared

(* with nothing to do the worker goes back to sleep; otherwise it releases
   heapWorkerLock around the interpreted call *)
Worker_got(t) ==
    /\ th[t].pc = "hw_got"
    /\ heapWorkerLock' = NoThread
    /\ th' = IF th[t].obj = NULL
             THEN [th EXCEPT ![t].pc = "hw_idle", ![t].status = "VMWAIT",
                             ![t].op = "none"]
             ELSE [th EXCEPT ![t].pc = "hw_call"]
    /\ UNCHANGED <<gcHeapLock, heapWorkerListLock, gcRunning, suspendBy,
                   condWaiters, heapState, queues, tracked, aborted, boot, refs>>

(* the finalizer or enqueue has run; dvmReleaseTrackedAlloc(obj) *)
Worker_called(t) ==
    /\ th[t].pc = "hw_call"
    /\ suspendBy = NoThread
    /\ tracked' = [tracked EXCEPT ![t] = @ \ {th[t].obj}]
    /\ th' = [th EXCEPT ![t].pc = "hw_try", ![t].obj = NULL, ![t].op = "none"]
    /\ UNCHANGED <<gcHeapLock, workerLocks, gcRunning, suspendBy, condWaiters,
                   heapState, queues, aborted, boot, refs>>

(* ---- a running mutator stores a reference: the write barrier ---- *)
MutatorWrite(t) ==
    /\ t \in Mutators
    /\ th[t].pc = "idle"
    /\ suspendBy = NoThread
    /\ ~cardDirty
    /\ cardDirty' = TRUE
    /\ UNCHANGED <<th, gcHeapLock, workerLocks, gcRunning, suspendBy,
                   condWaiters, liveBits, markBits, refLists, queues, tracked,
                   aborted, boot, refs>>

(* ---- the system ---- *)
LockHeap(t) ==
    \/ dvmLockHeap_try(t)
    \/ dvmLockHeap_block(t)
    \/ dvmLockHeap_restore(t)

Malloc(t) ==
    \/ tryMalloc_alloc(t)
    \/ tryMalloc_running(t)
    \/ tryMalloc_gc(t)
    \/ tryMalloc_grow(t)
    \/ tryMalloc_allocAndGrow(t)
    \/ tryMalloc_soft(t)
    \/ tryMalloc_last(t)
    \/ dvmMalloc_finalizable(t)
    \/ dvmMalloc_unlock(t)
    \/ dvmMalloc_after(t)
    \/ throwOOME(t)
    \/ dvmThrowException_done(t)
    \/ throwOOME_clear(t)
    \/ dvmMalloc_return(t)

WaitForGc(t) ==
    \/ tryMalloc_retry(t)
    \/ dvmWaitForConcurrentGcToComplete_test(t)
    \/ SpuriousWakeup(t)
    \/ dvmWaitForConcurrentGcToComplete_woken(t)
    \/ dvmWaitForConcurrentGcToComplete_again(t)

Collect(t) ==
    \/ gc_entry(t)
    \/ gc_lockWorker(t)
    \/ gc_suspendRoots(t)
    \/ gc_suspendedRoots(t)
    \/ gc_lockWorkerList(t)
    \/ gc_markRoots(t)
    \/ gc_scan(t)
    \/ gc_processReferences(t)
    \/ gc_swapBitmaps(t)
    \/ gc_sweep(t)
    \/ gc_resize(t)
    \/ gc_unlockWorker(t)
    \/ gc_resume(t)
    \/ gc_return(t)

CollectConcurrently(t) ==
    \/ gc_clearCardTable(t)
    \/ gc_concUnlock1(t)
    \/ gc_concResume1(t)
    \/ gc_suspendDirty(t)
    \/ gc_suspendedDirty(t)
    \/ gc_rescan(t)
    \/ gc_concUnlock2(t)
    \/ gc_concResume2(t)
    \/ gc_broadcast(t)
    \/ Daemon_lock(t)
    \/ Daemon_collect(t)
    \/ Daemon_unlock(t)

ExplicitGc(t) ==
    \/ Call_dvmCollectGarbage(t)
    \/ dvmCollectGarbage_wait(t)
    \/ dvmCollectGarbage_collect(t)
    \/ dvmCollectGarbage_unlock(t)

HeapWorker(t) ==
    \/ dvmGetNextHeapWorkerObject_lock(t)
    \/ dvmGetNextHeapWorkerObject_take(t)
    \/ dvmGetNextHeapWorkerObject_unlock(t)
    \/ Worker_wake(t)
    \/ Worker_tryLock(t)
    \/ Worker_lockBlocked(t)
    \/ Worker_lockRestore(t)
    \/ Worker_got(t)
    \/ Worker_called(t)

(* Mutators allocating and requesting collections while the daemon collects
   concurrently. *)
Next ==
    \E t \in Mutators \cup {Daemon} :
        \/ Call_dvmMalloc(t, {"listed"}, {FALSE}, {FALSE}, {"drop"})
        \/ Malloc(t)
        \/ LockHeap(t)
        \/ WaitForGc(t)
        \/ Collect(t)
        \/ CollectConcurrently(t)
        \/ ExplicitGc(t)
        \/ MutatorWrite(t)

Spec == Init /\ [][Next]_vars

(* Every kind of calling thread, with allocations nested in the throw. *)
NextThrow ==
    \E t \in {"m1"} :
        \/ Call_dvmMalloc(t, ThreadKinds, BOOLEAN, BOOLEAN, {"drop"})
        \/ Malloc(t)
        \/ dvmThrowException_alloc(t)
        \/ dvmLockHeap_try(t)
        \/ Collect(t)

SpecThrow == Init /\ [][NextThrow]_vars

(* The heap worker draining the queues the collector fills. *)
NextWorker ==
    \E t \in {"m1", Daemon, Worker} :
        \/ Call_dvmMalloc(t, {"listed"}, BOOLEAN, {FALSE}, {"drop"})
        \/ Malloc(t)
        \/ LockHeap(t)
        \/ WaitForGc(t)
        \/ Collect(t)
        \/ CollectConcurrently(t)
        \/ HeapWorker(t)

SpecWorker == Init /\ [][NextWorker]_vars

(* dvmHeapStartup, and the VM's allocations once it has returned true *)
VmRuns ==
    /\ boot.ret = "true"
    /\ \E t \in {"m1"} :
          \/ Call_dvmMalloc(t, {"listed"}, BOOLEAN, {FALSE}, {"drop"}) \/ Malloc(t)
          \/ dvmLockHeap_try(t) \/ Collect(t)

NextStartup ==
    \/ dvmHeapStartup_source
    \/ dvmHeapStartup_cardTable
    \/ VmRuns

SpecStartup == InitStartup /\ [][NextStartup]_vars

(* ---- the thread's scheduling, set from outside the allocator ---- *)
(* a thread in interpreted code changes its nice value (Process.
   setThreadPriority): background values run under SP_BACKGROUND *)
Thread_setPriority(t) ==
    /\ th[t].pc \in {"idle", "d_idle"}
    /\ suspendBy = NoThread
    /\ \E p \in Priorities \ {th[t].priority} :
          th' = [th EXCEPT ![t].priority = p,
                           ![t].policy = IF p >= ANDROID_PRIORITY_BACKGROUND
                                         THEN "SP_BACKGROUND"
                                         ELSE "SP_FOREGROUND"]
    /\ UNCHANGED shared

NextPriority ==
    \E t \in {"m1", Daemon} :
        \/ Thread_setPriority(t)
        \/ Call_dvmMalloc(t, {"listed"}, {FALSE}, {FALSE}, {"drop"})
        \/ Malloc(t)
        \/ LockHeap(t)
        \/ WaitForGc(t)
        \/ Collect(t)
        \/ CollectConcurrently(t)
        \/ ExplicitGc(t)

SpecPriority == Init /\ [][NextPriority]_vars

(* ---- what the collector frees ---- *)
(* a running mutator overwrites the last reference it held to an object *)
MutatorDrop(t) ==
    /\ t \in Mutators
    /\ th[t].pc = "idle"
    /\ suspendBy = NoThread
    /\ \E o \in refs.strong \cup refs.soft :
          refs' = [refs EXCEPT !.strong = @ \ {o}, !.soft = @ \ {o}]
    /\ UNCHANGED <<th, gcHeapLock, workerLocks, gcRunning, suspendBy,
                   condWaiters, heapState, queues, tracked, aborted, boot>>

(* line 95-98: dvmHeapStartupAfterZygote, once, in the forked child before
   its threads run: the heap source opens a new allocation area and the
   objects of the zygote lie outside it from now on *)
dvmHeapStartupAfterZygote ==
    /\ boot.pc = "done"
    /\ boot.ret = "true"
    /\ \A t \in Threads : th[t].pc \in {"idle", "d_idle", "hw_idle"}
    /\ gcHeapLock = NoThread
    /\ boot' = [boot EXCEPT !.pc = "child"]
    /\ refs' = [refs EXCEPT !.zygote = liveBits]
    /\ UNCHANGED <<th, gcHeapLock, workerLocks, gcRunning, suspendBy,
                   condWaiters, heapState, queues, tracked, aborted>>

(* Mutators keeping, soft-referencing and dropping what they allocate, in the
   zygote and in its child, with every kind of cycle. *)
NextSweep ==
    \/ dvmHeapStartupAfterZygote
    \/ \E t \in {"m1", Daemon} :
          \/ Call_dvmMalloc(t, {"listed"}, BOOLEAN, {FALSE}, Uses)
          \/ MutatorDrop(t)
          \/ Malloc(t)
          \/ LockHeap(t)
          \/ WaitForGc(t)
          \/ Collect(t)
          \/ CollectConcurrently(t)
          \/ ExplicitGc(t)

SpecSweep == Init /\ [][NextSweep]_vars

(* One mutator that allocates or asks twice for a collection, and the heap
   worker. *)
NextTwice ==
    \E t \in {"m1", Worker} :
        \/ Call_dvmMalloc(t, {"listed"}, BOOLEAN, {FALSE}, Uses)
        \/ Malloc(t)
        \/ dvmLockHeap_try(t)
        \/ Call_dvmCollectGarbage_twice(t)
        \/ dvmCollectGarbage_wait(t)
        \/ dvmWaitForConcurrentGcToComplete_test(t)
        \/ dvmCollectGarbage_collect(t)
        \/ dvmCollectGarbage_unlock(t)
        \/ Collect(t)
        \/ HeapWorker(t)

SpecTwice == Init /\ [][NextTwice]_vars

(* ---- every thread scheduled fairly ---- *)
(* the step thread t takes next when it is inside a call: returning from the
   call is a step, starting another call is not *)
Running(t) ==
    \/ Malloc(t)
    \/ dvmLockHeap_try(t)
    \/ tryMalloc_retry(t)
    \/ dvmWaitForConcurrentGcToComplete_test(t)
    \/ Collect(t)
    \/ gc_clearCardTable(t)
    \/ gc_concUnlock1(t)
    \/ gc_concResume1(t)
    \/ gc_suspendDirty(t)
    \/ gc_suspendedDirty(t)
    \/ gc_rescan(t)
    \/ gc_concUnlock2(t)
    \/ gc_concResume2(t)
    \/ gc_broadcast(t)
    \/ Daemon_unlock(t)
    \/ dvmCollectGarbage_wait(t)
    \/ dvmCollectGarbage_collect(t)
    \/ dvmCollectGarbage_unlock(t)
    \/ dvmGetNextHeapWorkerObject_take(t)
    \/ dvmGetNextHeapWorkerObject_unlock(t)
    \/ Worker_tryLock(t)
    \/ Worker_got(t)
    \/ Worker_called(t)

(* the step that ends a wait of thread t: for a mutex, for the wakeup on
   gcHeapCond, for the end of a suspension *)
Unblocked(t) ==
    \/ dvmLockHeap_block(t)
    \/ gc_lockWorker(t)
    \/ gc_suspendedRoots(t)
    \/ gc_lockWorkerList(t)
    \/ gc_suspendedDirty(t)
    \/ dvmLockHeap_restore(t)
    \/ dvmWaitForConcurrentGcToComplete_woken(t)
    \/ dvmWaitForConcurrentGcToComplete_again(t)
    \/ Daemon_collect(t)
    \/ dvmGetNextHeapWorkerObject_lock(t)
    \/ Worker_lockBlocked(t)
    \/ Worker_lockRestore(t)

LiveThreads == {"m1", Daemon, Worker}

NextLive ==
    \E t \in LiveThreads :
        \/ Call_dvmMalloc(t, {"listed"}, BOOLEAN, {FALSE}, {"drop"})
        \/ Malloc(t)
        \/ LockHeap(t)
        \/ WaitForGc(t)
        \/ Collect(t)
        \/ CollectConcurrently(t)
        \/ ExplicitGc(t)
        \/ HeapWorker(t)

(* A running thread is not starved of the processor, and a thread waiting
   for a mutex, a wakeup or a resume that keeps being offered is not passed
   over for ever. *)
Fairness ==
    \A t \in LiveThreads : WF_vars(Running(t)) /\ SF_vars(Unblocked(t))

SpecLive == Init /\ [][NextLive]_vars /\ Fairness

(* ---- properties ---- *)
(* Thread t is inside a GC cycle: past the reentrancy check of line 544 and
   not yet past gcRunning = false of line 760. *)
InCycle(t) ==
    \/ th[t].pc \in {"gc_wlock", "gc_suspend1", "gc_suspwait1", "gc_llock",
                     "gc_mark", "gc_c1_clear", "gc_c1_unlock", "gc_c1_resume",
                     "gc_scan",
                     "gc_suspend2", "gc_suspwait2", "gc_rescan", "gc_refs",
                     "gc_swap", "gc_c2_unlock", "gc_c2_resume", "gc_sweep",
                     "gc_resize"}
    \/ /\ th[t].pc \in {"lh_try", "lh_block", "lh_restore"}
       /\ th[t].lockRet \in {"gc_suspend2", "gc_resize"}

(* C1: at most one GC cycle is active at any instant, and gcRunning is true
   exactly while some driver invocation is between setting it and clearing
   it, the windows where a concurrent cycle has released the heap lock
   included.  (dvmAbort ends the process; nothing is claimed of the state it
   leaves behind.) *)
C1_AtMostOneCycle ==
    ~aborted =>
        /\ Cardinality({t \in Threads : InCycle(t)}) <= 1
        /\ gcRunning <=> \E t \in Threads : InCycle(t)

(* C1 witness: a second invocation of the driver arrived while a concurrent
   cycle had the heap lock released, and was turned away. *)
C1_Witness ==
    \E t, u \in Threads :
        /\ InCycle(t) /\ gcHeapLock = u /\ u # t
        /\ th[u].pc = "gc_ret" /\ th[u].recursive

(* C2: whenever tryMalloc returns NULL, a collection with clearSoftRefs =
   true has run its reference processing during that tryMalloc call. *)
C2_SoftRefsClearedBeforeNull ==
    \A t \in Threads :
        (th[t].pc = "m_post" /\ th[t].ptr = NULL) => th[t].softRefsCleared

(* C3: when dvmWaitForConcurrentGcToComplete has returned, gcRunning is
   false and the caller holds the heap lock. *)
C3_WaitReturnsIdleAndLocked ==
    \A t \in Threads :
        th[t].pc \in {"tm_retry", "x_gc"} => (~gcRunning /\ gcHeapLock = t)

(* C3 witness: tryMalloc found the GC running, waited, and the wait has
   returned. *)
C3_Witness == \E t \in Threads : th[t].pc = "tm_retry" /\ ~gcRunning

(* C4: dvmGetNextHeapWorkerObject hands out the next entry of
   referenceOperations with WORKER_ENQUEUE whenever that table is non-empty,
   the next entry of pendingFinalizationRefs with WORKER_FINALIZE only when
   referenceOperations is empty, and NULL, removing nothing, only when both
   are empty; so no finalize is handed out while an enqueue is pending. *)
C4_EnqueueBeforeFinalize ==
    [][\A t \in Threads :
        (th[t].pc = "gn_take" /\ th'[t].pc = "gn_unlock") =>
            /\ referenceOperations # <<>> =>
                  /\ th'[t].op = "WORKER_ENQUEUE"
                  /\ th'[t].obj = Head(referenceOperations)
                  /\ referenceOperations' = Tail(referenceOperations)
                  /\ pendingFinalizationRefs' = pendingFinalizationRefs
            /\ (referenceOperations = <<>> /\ pendingFinalizationRefs # <<>>) =>
                  /\ th'[t].op = "WORKER_FINALIZE"
                  /\ th'[t].obj = Head(pendingFinalizationRefs)
                  /\ pendingFinalizationRefs' = Tail(pendingFinalizationRefs)
                  /\ referenceOperations' = referenceOperations
            /\ (referenceOperations = <<>> /\ pendingFinalizationRefs = <<>>) =>
                  /\ th'[t].obj = NULL /\ th'[t].op = "none"
                  /\ UNCHANGED <<referenceOperations, pendingFinalizationRefs>>
            /\ th'[t].op = "WORKER_FINALIZE" => referenceOperations = <<>>
            /\ th'[t].obj = NULL =>
                  (referenceOperations = <<>> /\ pendingFinalizationRefs = <<>>)
            /\ heapWorkerListLock = t]_vars

(* C4 witness: the worker was handed the enqueue of an object whose finalize
   is still pending. *)
C4_Witness ==
    \E t \in Threads :
        /\ th[t].pc = "gn_unlock" /\ th[t].op = "WORKER_ENQUEUE"
        /\ th[t].obj \in Range(pendingFinalizationRefs)

(* C5 as stated: from the call to the return of a dvmMalloc that is not
   finalizable, or that fails, no step of the calling thread changes
   finalizableRefs. *)
C5_FinalizableRefsUnchanged ==
    [][\A t \in Mutators :
        ( /\ th[t].pc \notin {"idle", "aborted"} /\ th'[t] # th[t]
          /\ ~(th[t].pc = "m_post" /\ th[t].ptr # NULL /\ th[t].finalizable) )
        => finalizableRefs' = finalizableRefs]_vars

(* C5 amended: a dvmMalloc that has a chunk and ALLOC_FINALIZABLE appends the
   chunk to finalizableRefs before it unlocks the heap, holding the heap
   lock, and nothing else is ever appended to finalizableRefs: not by a
   dvmMalloc without ALLOC_FINALIZABLE, not by one that failed. *)
C5_AppendOnlyFinalizable ==
    [][/\ \A t \in Threads :
            ( /\ th[t].pc = "m_post" /\ th'[t].pc = "m_unlock"
              /\ th[t].ptr # NULL /\ th[t].finalizable )
            => /\ finalizableRefs' = Append(finalizableRefs, th[t].ptr)
               /\ gcHeapLock = t /\ gcHeapLock' = t
       /\ ( \/ Len(finalizableRefs') > Len(finalizableRefs)
            \/ Range(finalizableRefs') \ Range(finalizableRefs) # {} )
          => \E t \in Threads :
                /\ th[t].pc = "m_post" /\ th'[t].pc = "m_unlock"
                /\ th[t].ptr # NULL /\ th[t].finalizable]_vars

(* C5 witness: a finalizable allocation has just appended its chunk and
   still holds the heap lock. *)
C5_Witness ==
    \E t \in Threads :
        /\ th[t].pc = "m_unlock" /\ th[t].ptr # NULL /\ th[t].finalizable
        /\ gcHeapLock = t
        /\ finalizableRefs # <<>>
        /\ finalizableRefs[Len(finalizableRefs)] = th[t].ptr

(* C6 as stated: whenever dvmMalloc returns NULL an OutOfMemoryError is
   pending on the caller, whatever kind of caller it is. *)
C6_NullImpliesException ==
    \A t \in Threads :
        (th[t].pc = "m_ret" /\ th[t].ptr = NULL) => th[t].exception # "none"

(* C6 amended: whenever dvmMalloc returns NULL to a caller that has a
   Thread object (on the thread list, still attaching, or already throwing
   an OutOfMemoryError), an OutOfMemoryError is pending on it. *)
C6_NullImpliesExceptionIfThread ==
    \A t \in Threads :
        (th[t].pc = "m_ret" /\ th[t].ptr = NULL /\ HasThread(t))
            => th[t].exception # "none"

(* C6 witness: the allocation made while throwing failed as well, and the
   pre-built OutOfMemoryError is pending at its return. *)
C6_Witness ==
    \E t \in Threads :
        /\ th[t].pc = "m_ret" /\ th[t].ptr = NULL /\ th[t].frames # <<>>
        /\ th[t].exception = "prebuilt"

(* where a thread is in the middle of acquiring each lock *)
AcquiringHeap(t) == th[t].pc \in {"lh_try", "lh_block", "w_sleep"}
AcquiringWorker(t) == th[t].pc \in {"gc_wlock", "hw_try", "hw_block"}
AcquiringList(t) == th[t].pc \in {"gc_llock", "gn_lock"}

(* C7 as stated: no thread acquires the heap lock while holding the worker
   lock or the worker-list lock, nor the worker lock while holding the
   worker-list lock, the re-acquisitions of a concurrent cycle included. *)
C7_LockOrder ==
    \A t \in Threads :
        /\ AcquiringHeap(t) => (heapWorkerLock # t /\ heapWorkerListLock # t)
        /\ AcquiringWorker(t) => heapWorkerListLock # t

(* C7 amended: the order holds except where the driver of a GC_CONCURRENT
   cycle takes the heap lock again (line 661 and 730), which it does holding
   both the worker lock and the worker-list lock. *)
C7_LockOrderButConcurrent ==
    \A t \in Threads :
        /\ (AcquiringHeap(t) /\ (heapWorkerLock = t \/ heapWorkerListLock = t))
              => /\ Concurrent(t) /\ InCycle(t)
                 /\ th[t].pc \in {"lh_try", "lh_block"}
                 /\ th[t].lockRet \in {"gc_suspend2", "gc_resize"}
                 /\ heapWorkerLock = t /\ heapWorkerListLock = t
        /\ AcquiringWorker(t) => heapWorkerListLock # t
        /\ (AcquiringList(t) /\ th[t].pc = "gc_llock")
              => (gcHeapLock = t /\ heapWorkerLock = t)

(* C7 witness: the concurrent driver waits for the heap lock, which a
   mutator holds, with both worker locks in hand. *)
C7_Witness ==
    \E t \in Threads :
        /\ th[t].pc = "lh_block" /\ Concurrent(t) /\ InCycle(t)
        /\ heapWorkerLock = t /\ heapWorkerListLock = t
        /\ gcHeapLock \in Mutators

IsPrefix(a, b) == Len(a) <= Len(b) /\ SubSeq(b, 1, Len(a)) = a

(* C8: a driver invocation that got past the reentrancy check has, when it
   returns, suspended all threads twice if the reason is GC_CONCURRENT and
   once otherwise, each suspension followed by one resumption, the two
   alternating from a suspension on; and no suspension of its own is left
   standing. *)
C8_SuspendResumePairs ==
    \A t \in Threads :
        /\ IsPrefix(th[t].susLog, <<"S", "R", "S", "R">>)
        /\ (th[t].pc = "gc_ret" /\ ~th[t].recursive) =>
              /\ th[t].susLog = IF Concurrent(t) THEN <<"S", "R", "S", "R">>
                                ELSE <<"S", "R">>
              /\ suspendBy # t

(* C8 witness: a concurrent cycle is about to return after two suspensions
   and two resumptions. *)
C8_Witness ==
    \E t \in Threads :
        /\ th[t].pc = "gc_ret" /\ ~th[t].recursive /\ Concurrent(t)
        /\ th[t].susLog = <<"S", "R", "S", "R">>

(* the phases of a cycle, in the order of the driver's calls *)
PhaseOrder(t) ==
    <<"markRoots", "trace">>
    \o (IF Concurrent(t) THEN <<"remarkRoots", "rescan">> ELSE <<>>)
    \o <<"refs", "sweepSystemWeaks", "swapBitmaps", "sweepUnmarked",
         "finishMarkStep", "resize">>

(* C9: the phases of every cycle run in the order mark roots, trace, (if
   concurrent: re-mark roots, re-scan dirty cards), reference processing,
   sweep system weaks, bitmap swap, sweep unmarked, finish mark step,
   resize, all of them by the time the driver returns; and reference
   processing starts with the heap lock held and every other thread
   suspended. *)
C9_PhaseOrder ==
    \A t \in Threads :
        /\ IsPrefix(th[t].phases, PhaseOrder(t))
        /\ (th[t].pc = "gc_ret" /\ ~th[t].recursive) => th[t].phases = PhaseOrder(t)
        /\ th[t].pc = "gc_refs" =>
              /\ gcHeapLock = t /\ suspendBy = t
              /\ \A u \in Threads \ {t} : Safe(u)
              /\ Len(th[t].phases) = IF Concurrent(t) THEN 4 ELSE 2

(* C9 witness: a concurrent cycle is about to process references, after the
   re-scan, while a mutator is in the middle of an allocation. *)
C9_Witness ==
    \E t \in Threads :
        /\ th[t].pc = "gc_refs" /\ Concurrent(t)
        /\ th[t].phases = <<"markRoots", "trace", "remarkRoots", "rescan">>
        /\ \E u \in Mutators : th[u].pc \notin {"idle", "aborted"}

(* C10: the step of the driver that finds gcRunning set goes straight to
   the return and changes nothing: no lock, no suspension or resumption, no
   bitmap, card table or reference list, no waiter of gcHeapCond, and
   gcRunning stays true; the return that follows changes nothing either. *)
C10_RecursiveCallChangesNothing ==
    [][\A t \in Threads :
        /\ (th[t].pc = "gc_entry" /\ gcRunning /\ th'[t] # th[t] /\ ~aborted') =>
              /\ UNCHANGED shared
              /\ gcRunning'
              /\ th'[t] = [th[t] EXCEPT !.pc = "gc_ret", !.recursive = TRUE]
              /\ th'[t].susLog = <<>> /\ th'[t].phases = <<>>
        /\ (th[t].pc = "gc_ret" /\ th[t].recursive /\ th'[t] # th[t] /\ ~aborted') =>
              /\ UNCHANGED shared
              /\ th'[t].pc = th[t].gcRet]_vars

(* C10 witness: an allocation asked for a collection while a concurrent
   cycle was running, and the driver has turned it away. *)
C10_Witness ==
    \E t \in Mutators :
        /\ th[t].pc = "gc_ret" /\ th[t].recursive /\ gcRunning
        /\ th[t].susLog = <<>> /\ gcHeapLock = t

(* the calls of tryMalloc(size) when every allocation fails; waited: the
   GC was found running after the first failure *)
Ladder(size, waited) ==
    IF size >= heapGrowthLimit
    THEN <<"gc_true", "grow">>
    ELSE <<"alloc">>
         \o (IF waited THEN <<"wait", "alloc">> ELSE <<>>)
         \o <<"gc_false", "alloc", "grow", "gc_true", "grow">>

(* C11: the calls tryMalloc(size) makes are those of the ladder, in its
   order: for size >= heapGrowthLimit only gcForMalloc(true) and
   dvmHeapSourceAllocAndGrow; else dvmHeapSourceAlloc, (if the GC is
   running) the wait and dvmHeapSourceAlloc, gcForMalloc(false),
   dvmHeapSourceAlloc, dvmHeapSourceAllocAndGrow, gcForMalloc(true),
   dvmHeapSourceAllocAndGrow.  It returns at the first allocation that
   succeeds, and returns NULL only after the whole ladder. *)
C11_LadderCalls ==
    \A t \in Threads :
        /\ \E w \in BOOLEAN : IsPrefix(th[t].calls, Ladder(th[t].size, w))
        /\ th[t].pc = "m_post" =>
              /\ th[t].calls # <<>>
              /\ th[t].calls[Len(th[t].calls)] \in {"alloc", "grow"}
              /\ th[t].ptr = NULL =>
                    \E w \in BOOLEAN : th[t].calls = Ladder(th[t].size, w)
        /\ (th[t].ptr # NULL /\ th[t].calls # <<>>) => th[t].pc = "m_post"
        /\ th[t].pc = "tm_retry" => th[t].calls = <<"alloc", "wait">>

(* C11 witness: an allocation below the limit ran the whole ladder, the wait
   included, and failed. *)
C11_Witness ==
    \E t \in Threads :
        /\ th[t].pc = "m_post" /\ th[t].ptr = NULL
        /\ th[t].size = heapGrowthLimit - 1
        /\ th[t].calls = Ladder(th[t].size, TRUE)

(* C12: dvmMalloc has released the heap lock it took at entry when it adds
   the object to the tracked allocations and when it calls throwOOME, on the
   success and on the failure path; the lock is held until that release;
   and the object is tracked exactly when it is not NULL and
   ALLOC_DONT_TRACK is not set. *)
C12_UnlockedWhenTrackingOrThrowing ==
    \A t \in Threads :
        /\ th[t].pc \in {"m_post", "m_unlock"} =>
              (gcHeapLock = t /\ th[t].ptr \notin tracked[t])
        /\ th[t].pc \in {"m_after", "oo_start", "oo_throw", "oo_clear", "m_ret"} =>
              gcHeapLock # t
        /\ th[t].pc = "m_after" => th[t].ptr \notin tracked[t]
        /\ th[t].pc = "oo_start" => th[t].ptr = NULL
        /\ th[t].pc = "m_ret" =>
              (th[t].ptr \in tracked[t] <=> (th[t].ptr # NULL /\ ~th[t].dontTrack))

(* C12 witness: the object has been tracked, with the heap lock free. *)
C12_Witness ==
    \E t \in Threads :
        /\ th[t].pc = "m_ret" /\ th[t].ptr \in tracked[t]
        /\ gcHeapLock = NoThread

(* C13: on one thread at most one allocating throw of OutOfMemoryError is
   in progress: a throwOOME that begins inside dvmThrowException takes the
   pre-built path.  (Every frame of a thread was pushed from inside a
   dvmThrowException, so a thread inside dvmThrowException with a frame has
   two of them in progress.) *)
C13_OneFreshThrow ==
    \A t \in Threads :
        /\ th[t].pc = "oo_throw" => th[t].frames = <<>>
        /\ (th[t].pc = "idle" /\ th[t].frames = <<>>) => ~th[t].throwingOOME

(* thread t is inside the dvmWaitForConcurrentGcToComplete of tryMalloc *)
InStep3Wait(t) ==
    th[t].pc \in {"w_loop", "w_sleep", "w_restore"} /\ th[t].waitRet = "tm_retry"

(* C16 as stated: from the failure of the first dvmHeapSourceAlloc to the
   retry, the wait included, the allocating thread holds the heap lock. *)
C16_WaitHoldsHeapLock ==
    \A t \in Threads :
        (th[t].pc \in {"tm_running", "tm_retry"} \/ InStep3Wait(t)) => gcHeapLock = t

(* C16 amended: the allocating thread holds the heap lock from the failure
   of the first dvmHeapSourceAlloc to the retry except while it is blocked
   in dvmWaitCond, which releases the heap lock (and nothing else: the
   thread holds neither worker lock). *)
C16_WaitReleasesHeapLockWhileBlocked ==
    \A t \in Threads :
        /\ (th[t].pc \in {"tm_running", "tm_retry"}
              \/ (InStep3Wait(t) /\ th[t].pc # "w_sleep")) => gcHeapLock = t
        /\ (InStep3Wait(t) /\ th[t].pc = "w_sleep") => gcHeapLock # t
        /\ InStep3Wait(t) => (heapWorkerLock # t /\ heapWorkerListLock # t)

(* C16 witness: while the allocating thread is blocked in the wait another
   thread has the heap lock. *)
C16_Witness ==
    \E t, u \in Threads :
        /\ InStep3Wait(t) /\ th[t].pc = "w_sleep"
        /\ u # t /\ gcHeapLock = u

(* C17: a thread blocked on the heap lock in dvmLockHeap, or on gcHeapCond,
   is in THREAD_VMWAIT; when it has the lock its status becomes what it was
   before the call; a thread whose try-lock succeeds keeps its status. *)
C17_BlockedInVmWait ==
    [][\A t \in Threads : th'[t].pc # "aborted" =>
        /\ (th[t].pc = "lh_try" /\ th'[t].pc \notin {"lh_try", "lh_block"}) =>
              (th'[t].status = th[t].status /\ gcHeapLock' = t)
        /\ (th[t].pc = "lh_try" /\ th'[t].pc = "lh_block") =>
              (th'[t].status = "VMWAIT" /\ th'[t].oldStatus = th[t].status)
        /\ (th[t].pc = "w_loop" /\ th'[t].pc = "w_sleep") =>
              (th'[t].status = "VMWAIT" /\ th'[t].oldStatus = th[t].status)
        /\ th[t].pc \in {"lh_block", "w_sleep", "lh_restore", "w_restore"} =>
              /\ th[t].status = "VMWAIT"
              /\ th'[t].pc \in {"lh_block", "w_sleep", "lh_restore", "w_restore"} =>
                    (th'[t].status = "VMWAIT" /\ th'[t].oldStatus = th[t].oldStatus)
              /\ th'[t].pc \notin {"lh_block", "w_sleep", "lh_restore", "w_restore"} =>
                    (th'[t].status = th[t].oldStatus /\ gcHeapLock = t)]_vars

(* C17 witness: a thread that was THREAD_RUNNING has waited for the heap
   lock in THREAD_VMWAIT, has the lock, and is about to become
   THREAD_RUNNING again. *)
C17_Witness ==
    \E t \in Threads :
        /\ th[t].pc = "lh_restore" /\ th[t].oldStatus = "RUNNING"
        /\ th[t].status = "VMWAIT" /\ gcHeapLock = t

(* C14: when dvmHeapStartup returns false, what it had built is gone: no
   heap source is left allocated and gDvm.gcHeap points at no heap. *)
C14_FailedStartupTornDown ==
    boot.ret = "false" => (~boot.heapSource /\ ~boot.gcHeap /\ ~boot.cardTable)

(* C20: when a cycle that is not a recursive no-op returns, the collecting
   thread's nice value and scheduling policy are those it entered the driver
   with, whatever the priority calls did and whatever the reason *)
C20_SchedulingRestored ==
    \A t \in Threads :
        (th[t].pc = "gc_ret" /\ ~th[t].recursive)
            => <<th[t].priority, th[t].policy>> = th[t].entrySched

(* some thread is inside a call and no thread inside a call can take a step *)
Deadlocked ==
    /\ \E t \in Threads : th[t].pc \notin {"idle", "d_idle", "hw_idle"}
    /\ ~ENABLED (\E t \in Threads : Running(t) \/ Unblocked(t))

(* C15: under fair scheduling a cycle that set gcRunning clears it again
   (dvmAbort ends the process instead), whatever the reason and whatever the
   mutators, the waiters and the heap worker do meanwhile; and no state is
   a deadlock of the three locks and the suspend-all protocol *)
C15_CycleCompletes ==
    /\ gcRunning ~> (~gcRunning \/ aborted)
    /\ [](Deadlocked => aborted)

(* C15 witness: a concurrent cycle is running with its driver waiting to get
   the heap lock back from a mutator, while the heap worker waits for the
   driver's heapWorkerLock. *)
C15_Witness ==
    /\ gcRunning
    /\ th[Daemon].pc = "lh_block"
    /\ gcHeapLock = "m1"
    /\ th[Worker].pc = "hw_block"

(* C18: when a cycle sweeps, every object that was live, without finalizer
   and unreachable from the roots when the driver was entered is no longer
   in the live bitmap, whatever the reason of the cycle *)
C18_UnreachableFreed ==
    [][\A t \in Threads :
          (th[t].pc = "gc_sweep" /\ th'[t].pc # "gc_sweep")
              => th[t].garbage \cap liveBits' = {}]_vars

(* C18 amended: the same for the objects the cycle's mode collects: all of
   them for GC_FULL (GC_CONCURRENT, GC_EXPLICIT), those of the current
   allocation area for GC_PARTIAL (GC_FOR_MALLOC) *)
C18_UnreachableFreedWhereCollected ==
    [][\A t \in Threads :
          (th[t].pc = "gc_sweep" /\ th'[t].pc # "gc_sweep")
              => (th[t].garbage \ Immune(t)) \cap liveBits' = {}]_vars

(* C18 witness: a concurrent cycle has swapped the bitmaps and is about to
   sweep an object that was unreachable at its start, with a mutator inside
   dvmMalloc holding the heap lock *)
C18_Witness ==
    /\ th[Daemon].pc = "gc_sweep"
    /\ th[Daemon].garbage # {}
    /\ th[Daemon].garbage \cap liveBits = {}
    /\ gcHeapLock = "m1"

(* C19: the second of two explicit cycles requested in a row, with no
   allocation between them, sweeps nothing: it frees zero bytes *)
C19_SecondFreesNothing ==
    [][\A t \in Threads :
          (th[t].pc = "gc_sweep" /\ th'[t].pc # "gc_sweep" /\ th[t].first.done)
              => Swept = {}]_vars

(* C19 amended: it frees nothing when it does not clear soft references the
   first cycle kept and every object the roots held when the first cycle
   swept (tracked allocations and worker queue entries included) is still
   held when the second marks its roots *)
C19_SecondFreesNothingIfQuiet ==
    [][\A t \in Threads :
          (/\ th[t].pc = "gc_sweep" /\ th'[t].pc # "gc_sweep"
           /\ th[t].first.done
           /\ th[t].quiet
           /\ th[t].first.soft \/ ~th[t].clearSoftRefs)
              => Swept = {}]_vars

(* C19 witness: the second cycle has swept, after a first cycle whose roots
   held an object that is still live and still held *)
C19_Witness ==
    \E t \in Mutators :
        /\ th[t].pc = "gc_resize" /\ th[t].first.done
        /\ th[t].quiet
        /\ th[t].first.soft \/ ~th[t].clearSoftRefs
        /\ th[t].first.kept # {}
        /\ th[t].first.kept \subseteq liveBits

(* the driver t of a concurrent cycle has cleared the card table (line 644)
   and has not yet finished the dirty-card re-scan (line 681) *)
CardsInUse(t) ==
    /\ Concurrent(t)
    /\ \/ th[t].pc \in {"gc_c1_unlock", "gc_c1_resume", "gc_scan",
                         "gc_suspend2", "gc_suspwait2", "gc_rescan"}
       \/ /\ th[t].pc \in {"lh_try", "lh_block", "lh_restore"}
          /\ th[t].lockRet = "gc_suspend2"

(* C21: a concurrent cycle clears the card table holding the heap lock with
   every other thread suspended, and still holds the lock and the suspension
   after the clear; from the clear to the end of the dirty-card re-scan no
   step erases a dirty card; a non-concurrent cycle never erases a dirty card
   and holds the heap lock at every step *)
C21_CardTableClearedBeforeRelease ==
    [][\A t \in Threads :
          /\ (th[t].pc = "gc_c1_clear" /\ th'[t].pc # "gc_c1_clear")
                => /\ Concurrent(t)
                   /\ gcHeapLock = t /\ gcHeapLock' = t
                   /\ suspendBy = t /\ suspendBy' = t
                   /\ \A u \in Threads \ {t} : Safe(u)
          /\ CardsInUse(t) => (cardDirty => cardDirty')
          /\ (InCycle(t) /\ ~Concurrent(t))
                => /\ cardDirty => cardDirty'
                   /\ gcHeapLock = t /\ gcHeapLock' = t]_vars

(* C21 witness: the daemon's concurrent cycle is about to re-scan with a
   card a mutator dirtied during the trace *)
C21_Witness ==
    /\ th[Daemon].pc = "gc_rescan"
    /\ cardDirty
    /\ gcHeapLock = Daemon

(* the driver t is between dvmLockMutex(&gDvm.heapWorkerListLock) of line 610
   and dvmUnlockMutex(&gDvm.heapWorkerListLock) of line 763 *)
ListLocked(t) ==
    \/ /\ InCycle(t)
       /\ th[t].pc \notin {"gc_wlock", "gc_suspend1", "gc_suspwait1", "gc_llock"}
    \/ th[t].pc = "gc_wunlock"

(* a thread is inside dvmGetNextHeapWorkerObject *)
InNextWorkerObject(u) == th[u].pc \in {"gn_lock", "gn_take", "gn_unlock"}

(* C22: while the driver is between taking and releasing heapWorkerListLock
   it owns that lock, no call of dvmGetNextHeapWorkerObject returns, and
   pendingFinalizationRefs and referenceOperations only grow at the tail;
   also in the windows of a concurrent cycle where the heap lock is released
   and the mutators run *)
C22_QueuesFrozen ==
    [][\A t \in Threads :
          ListLocked(t)
            => /\ heapWorkerListLock = t
               /\ IsPrefix(pendingFinalizationRefs, pendingFinalizationRefs')
               /\ IsPrefix(referenceOperations, referenceOperations')
               /\ \A u \in Threads :
                     InNextWorkerObject(u) => InNextWorkerObject(u)']_vars

(* C22 witness: in the sweep window of a concurrent cycle, heap lock taken by
   a mutator, a finalization is queued and the heap worker waits for the
   driver's heapWorkerLock *)
C22_Witness ==
    /\ th[Daemon].pc = "gc_sweep"
    /\ ListLocked(Daemon)
    /\ gcHeapLock = "m1"
    /\ pendingFinalizationRefs # <<>>
    /\ th[Worker].pc = "hw_block"

(* C23: at every suspend-all request of the driver, the first of any cycle
   and the second of a concurrent cycle, the driver does not own
   heapWorkerListLock, so that no thread waits for that lock in
   THREAD_RUNNING because of the driver *)
C23_ListLockFreeAtSuspend ==
    [][\A t \in Threads :
          (suspendBy # t /\ suspendBy' = t) => heapWorkerListLock # t]_vars

(* thread t is inside dvmWaitForConcurrentGcToComplete *)
InWait(t) == th[t].pc \in {"w_loop", "w_sleep", "w_restore"}

(* no concurrent cycle is requested any more *)
DaemonRests == th[Daemon].pc = "d_idle"

(* C24: with every thread scheduled fairly, once concurrent cycles stop being
   started a thread asleep in dvmWaitForConcurrentGcToComplete returns from
   it (dvmAbort ends the process instead); a thread in the wait loop that
   finds gcRunning set while it holds the heap lock does so during a
   concurrent cycle of another thread; gcRunning is cleared, and gcHeapCond
   broadcast, by a driver that holds the heap lock *)
C24_NoLostWakeup ==
    /\ \A t \in LiveThreads :
          <>[]DaemonRests => ((th[t].pc = "w_sleep") ~> (~InWait(t) \/ aborted))
    /\ [](\A u \in Threads :
            (th[u].pc = "w_loop" /\ gcRunning /\ ~aborted)
              => /\ gcHeapLock = u
                 /\ \E t \in Threads \ {u} : InCycle(t) /\ Concurrent(t))
    /\ [][\A t \in Threads :
            /\ (th[t].pc = "gc_resize" /\ ~gcRunning') => gcHeapLock = t
            /\ (th[t].pc = "gc_bcast" /\ th'[t].pc # "gc_bcast")
                  => (gcHeapLock = t /\ ~gcRunning /\ condWaiters' = {})]_vars

(* C24 witness: a mutator sleeps on gcHeapCond while the daemon's concurrent
   cycle, about to broadcast, holds the heap lock again *)
C24_Witness ==
    /\ th[Daemon].pc = "gc_bcast"
    /\ gcHeapLock = Daemon
    /\ "m1" \in condWaiters
    /\ th["m1"].pc = "w_sleep"

(* thread t is inside dvmCollectGarbageInternal *)
InDriver(t) ==
    InCycle(t) \/ th[t].pc \in {"gc_entry", "gc_wunlock", "gc_bcast",
                                "gc_resume", "gc_ret"}

(* C25: the driver returns with the heap lock owned by its thread, neither
   worker lock owned by it, no suspend-all outstanding and, unless it was
   turned away as a recursive call, gcRunning false; a concurrent cycle has
   then released and re-taken the heap lock twice each, in turn, and a call
   for another reason holds the heap lock at every step and never releases
   it *)
C25_DriverReturnsAsEntered ==
    \A t \in Threads :
        /\ th[t].pc = "gc_ret"
             => /\ gcHeapLock = t
                /\ heapWorkerLock # t /\ heapWorkerListLock # t
                /\ suspendBy = NoThread
                /\ ~th[t].recursive => ~gcRunning
                /\ th[t].heapLog = IF Concurrent(t) /\ ~th[t].recursive
                                   THEN <<"U", "L", "U", "L">> ELSE <<>>
        /\ (InDriver(t) /\ ~Concurrent(t))
             => (gcHeapLock = t /\ th[t].heapLog = <<>>)

(* C25 witness: the daemon's concurrent cycle is at its return after a
   mutator took the heap lock in one of its windows and slept on gcHeapCond *)
C25_Witness ==
    /\ th[Daemon].pc = "gc_ret"
    /\ ~th[Daemon].recursive
    /\ th[Daemon].heapLog = <<"U", "L", "U", "L">>
    /\ \E u \in Mutators : th[u].pc = "w_sleep"

====
